---- MODULE Spec2Model ----
(***************************************************************************)
(* Model of the FSI demo transaction generator                             *)
(* (src/fsi_demo/streaming/transaction_generator.py), its batch exporter   *)
(* (historical_generator.py) and its streaming sinks.                      *)
(*                                                                         *)
(* Conventions                                                             *)
(*   - money: a float amount is held in mills (1/1000 of a unit) before    *)
(*     round(x, 2) and in cents after it;                                  *)
(*   - random.random() is a value u/RandScale with u in 0..RandScale-1;    *)
(*     every other draw of the random module is derived from such a u;     *)
(*   - a datetime is the record of its fields, a date string is the        *)
(*     sequence of its characters;                                         *)
(*   - an integer too wide for 32 bits (a transaction id) is the pair      *)
(*     [hi, lo] with value hi * BigBase + lo, 0 <= lo < BigBase;           *)
(*   - a dict is a function from its keys.                                 *)
(***************************************************************************)
EXTENDS Integers, Sequences, FiniteSets, TLC

VARIABLES generator,   \* the TransactionGenerator instance (its configuration)
          pc,          \* position of the running program
          input,       \* arguments of the call under way
          output,      \* value returned by the finished call
          rng,         \* state of the random module: [seed, pos]
          hist,        \* locals of the historical generation and export
          stream,      \* the streamer object and the locals of its loop
          clock        \* wall clock, in milliseconds since midnight of StreamDay

vars == <<generator, pc, input, output, rng, hist, stream, clock>>

(***************************************************************************)
(* Resolution of the model's arithmetic.                                   *)
(***************************************************************************)
RandScale == 1000
MillsPerUnit == 1000
CentsPerUnit == 100
BigBase == 100000000

(***************************************************************************)
(* Decimal text.                                                           *)
(***************************************************************************)
DigitChars == <<"0", "1", "2", "3", "4", "5", "6", "7", "8", "9">>

DigitChar(d) == DigitChars[d + 1]

IsDigitChar(c) == \E d \in 0..9 : DigitChars[d + 1] = c

CharDigit(c) == CHOOSE d \in 0..9 : DigitChars[d + 1] = c

RECURSIVE Pow10(_)
Pow10(n) == IF n = 0 THEN 1 ELSE 10 * Pow10(n - 1)

RECURSIVE NumDigits(_)
NumDigits(n) == IF n < 10 THEN 1 ELSE 1 + NumDigits(n \div 10)

\* str(n) for a small non-negative integer
RECURSIVE IntStr(_)
IntStr(n) == IF n < 10 THEN <<DigitChar(n)>>
             ELSE IntStr(n \div 10) \o <<DigitChar(n % 10)>>

\* f"{n:0{w}d}": zero padded to at least w characters, never truncated
RECURSIVE ZeroPad(_, _)
ZeroPad(n, w) == IF NumDigits(n) >= w THEN IntStr(n)
                 ELSE <<"0">> \o ZeroPad(n, w - 1)

\* value of a short digit string (at most 8 characters)
RECURSIVE StrInt(_)
StrInt(s) == IF Len(s) = 0 THEN 0
             ELSE 10 * StrInt(SubSeq(s, 1, Len(s) - 1)) + CharDigit(s[Len(s)])

\* int(s) for a digit string of any length
RECURSIVE BigFromStr(_)
BigFromStr(s) ==
    IF Len(s) = 0 THEN [hi |-> 0, lo |-> 0]
    ELSE LET b == BigFromStr(SubSeq(s, 1, Len(s) - 1))
             t == b.lo * 10 + CharDigit(s[Len(s)])
         IN  [hi |-> b.hi * 10 + t \div BigBase, lo |-> t % BigBase]

\* str(b) for a wide integer
BigStr(b) == IF b.hi = 0 THEN IntStr(b.lo) ELSE IntStr(b.hi) \o ZeroPad(b.lo, 8)

BigAdd(b, n) == LET t == b.lo + n
                IN  [hi |-> b.hi + t \div BigBase, lo |-> t % BigBase]

BigLess(a, b) == a.hi < b.hi \/ (a.hi = b.hi /\ a.lo < b.lo)

(***************************************************************************)
(* datetime                                                                *)
(***************************************************************************)
IsLeap(y) == y % 4 = 0 /\ (y % 100 # 0 \/ y % 400 = 0)

DaysInMonth(y, m) == IF m = 2 THEN (IF IsLeap(y) THEN 29 ELSE 28)
                     ELSE IF m \in {4, 6, 9, 11} THEN 30 ELSE 31

RECURSIVE DaysBeforeMonth(_, _)
DaysBeforeMonth(y, m) == IF m = 1 THEN 0
                         ELSE DaysBeforeMonth(y, m - 1) + DaysInMonth(y, m - 1)

DaysBeforeYear(y) == (y - 1) * 365 + (y - 1) \div 4 - (y - 1) \div 100 + (y - 1) \div 400

\* datetime.toordinal(): 1 for 0001-01-01
ToOrdinal(dt) == DaysBeforeYear(dt.year) + DaysBeforeMonth(dt.year, dt.month) + dt.day

\* datetime.weekday(): Monday = 0 .. Sunday = 6
Weekday(dt) == (ToOrdinal(dt) + 6) % 7

\* the day after, in a calendar without 29 February
NextDay_no_leap_day(dt) ==
    IF dt.day < (IF dt.month = 2 THEN 28 ELSE DaysInMonth(dt.year, dt.month))
    THEN [dt EXCEPT !.day = dt.day + 1]
    ELSE IF dt.month < 12 THEN [dt EXCEPT !.month = dt.month + 1, !.day = 1]
    ELSE [dt EXCEPT !.year = dt.year + 1, !.month = 1, !.day = 1]

\* dt + timedelta(days=1)
NextDay(dt) ==
    IF dt.day < DaysInMonth(dt.year, dt.month) THEN [dt EXCEPT !.day = dt.day + 1]
    ELSE IF dt.month < 12 THEN [dt EXCEPT !.month = dt.month + 1, !.day = 1]
    ELSE [dt EXCEPT !.year = dt.year + 1, !.month = 1, !.day = 1]

\* dt - timedelta(days=1)
PrevDay(dt) ==
    IF dt.day > 1 THEN [dt EXCEPT !.day = dt.day - 1]
    ELSE IF dt.month > 1
         THEN [dt EXCEPT !.month = dt.month - 1,
                         !.day = DaysInMonth(dt.year, dt.month - 1)]
    ELSE [dt EXCEPT !.year = dt.year - 1, !.month = 12, !.day = 31]

\* dt + timedelta(days=n), n of either sign
RECURSIVE AddDays(_, _)
AddDays(dt, n) == IF n = 0 THEN dt
                  ELSE IF n > 0 THEN AddDays(NextDay(dt), n - 1)
                  ELSE AddDays(PrevDay(dt), n + 1)

\* dt.replace(hour=0, minute=0, second=0, microsecond=0)
Midnight(dt) == [dt EXCEPT !.hour = 0, !.minute = 0, !.second = 0, !.microsecond = 0]

\* dt.strftime("%Y-%m-%d")
StrfDashed(dt) == ZeroPad(dt.year, 4) \o <<"-">> \o ZeroPad(dt.month, 2)
                  \o <<"-">> \o ZeroPad(dt.day, 2)

\* the format without the day of the month
StrfCompact_no_day(dt) == ZeroPad(dt.year, 4) \o ZeroPad(dt.month, 2)

\* dt.strftime("%Y%m%d")
StrfCompact(dt) == ZeroPad(dt.year, 4) \o ZeroPad(dt.month, 2) \o ZeroPad(dt.day, 2)

EpochOrdinal == 719163

\* whole seconds only: int(dt.timestamp()) * 1000
TimestampMillis_whole_seconds(dt) ==
    LET secs == (ToOrdinal(dt) - EpochOrdinal) * 86400
                + dt.hour * 3600 + dt.minute * 60 + dt.second
    IN  [hi |-> secs \div 100000, lo |-> (secs % 100000) * 1000]

\* int(dt.timestamp() * 1000) for a naive datetime on a host whose zone is UTC
TimestampMillis(dt) ==
    LET secs == (ToOrdinal(dt) - EpochOrdinal) * 86400
                + dt.hour * 3600 + dt.minute * 60 + dt.second
    IN  [hi |-> secs \div 100000,
         lo |-> (secs % 100000) * 1000 + dt.microsecond \div 1000]

(***************************************************************************)
(* TransactionGenerator.__init__                                           *)
(***************************************************************************)
TransactionTypes ==
    <<"leisure_payment", "subscription_fee", "travel_expense", "shopping",
      "dining", "entertainment", "fitness_wellness", "education",
      "luxury_purchase", "miscellaneous">>

\* weights whose last entry is one too many
TransactionWeights_last_bumped == <<40, 15, 10, 10, 7, 5, 5, 3, 3, 3>>

TransactionWeights == <<40, 15, 10, 10, 7, 5, 5, 3, 3, 2>>

AmountRanges ==
    [t \in {TransactionTypes[i] : i \in 1..Len(TransactionTypes)} |->
        CASE t = "leisure_payment"  -> <<50, 500>>
          [] t = "subscription_fee" -> <<10, 100>>
          [] t = "travel_expense"   -> <<200, 2000>>
          [] t = "shopping"         -> <<30, 800>>
          [] t = "dining"           -> <<20, 200>>
          [] t = "entertainment"    -> <<25, 300>>
          [] t = "fitness_wellness" -> <<50, 500>>
          [] t = "education"        -> <<100, 1000>>
          [] t = "luxury_purchase"  -> <<500, 5000>>
          [] t = "miscellaneous"    -> <<20, 300>>]

\* anomaly_probability = 0.05, in units of 1/RandScale
DefaultAnomalyProbability == 50

\* an anomaly range that starts inside the luxury_purchase range
NewGenerator_low_anomaly_floor ==
    [customer_range       |-> [start |-> 1001, stop |-> 1101],
     transaction_types    |-> TransactionTypes,
     transaction_weights  |-> TransactionWeights,
     amount_ranges        |-> AmountRanges,
     anomaly_probability  |-> DefaultAnomalyProbability,
     anomaly_amount_range |-> <<2500, 75000>>]

NewGenerator ==
    [customer_range       |-> [start |-> 1001, stop |-> 1101],
     transaction_types    |-> TransactionTypes,
     transaction_weights  |-> TransactionWeights,
     amount_ranges        |-> AmountRanges,
     anomaly_probability  |-> DefaultAnomalyProbability,
     anomaly_amount_range |-> <<25000, 75000>>]

(***************************************************************************)
(* The random module: each operator takes the random() value u it draws.   *)
(***************************************************************************)
\* random.randint(a, b)
RandInt(a, b, u) == a + (u * (b - a + 1)) \div RandScale

\* the stop of the range taken as inclusive
RandChoice_inclusive_stop(r, u) ==
    r.start + (u * (r.stop - r.start + 1)) \div RandScale

\* random.choice(range(start, stop))
RandChoice(r, u) == r.start + (u * (r.stop - r.start)) \div RandScale

RECURSIVE CumWeight(_, _)
CumWeight(w, i) == IF i = 0 THEN 0 ELSE CumWeight(w, i - 1) + w[i]

\* random.choices(population, weights, k=1)[0]:
\* bisect(cum_weights, random() * total)
RandChoices(population, weights, u) ==
    LET total == CumWeight(weights, Len(weights))
        idx == CHOOSE i \in 1..Len(weights) :
                   /\ CumWeight(weights, i) * RandScale > u * total
                   /\ \A j \in 1..(i - 1) : CumWeight(weights, j) * RandScale <= u * total
    IN  population[idx]

\* random.uniform(a, b) = a + (b - a) * random(), in mills
RandUniform(a, b, u) == a * MillsPerUnit + (b - a) * u * (MillsPerUnit \div RandScale)

\* random.normalvariate(mean, std_dev) = mean + z * std_dev, in mills; the
\* deviate z is read off a table of standard scores, tails beyond 3 sigma
\* included, in tenths of a sigma
ZTable == <<-45, -30, -12, 0, 7, 30, 45>>

RandNormal(mean, std_dev, u) ==
    LET z == ZTable[1 + (u * Len(ZTable)) \div RandScale]
    IN  mean + (z * std_dev) \div 10

\* round(x, 2): mills to cents, ties to even
Round2(x) == LET q == x \div 10
                 r == x % 10
             IN  IF r > 5 \/ (r = 5 /\ q % 2 = 1) THEN q + 1 ELSE q

Max(a, b) == IF a >= b THEN a ELSE b

Min(a, b) == IF a <= b THEN a ELSE b

\* a default range wider than the one of the code
DefaultAmountRange_wide == <<20, 5000>>

\* self.amount_ranges.get(transaction_type, (50, 500))
DefaultAmountRange == <<50, 500>>

(***************************************************************************)
(* TransactionGenerator.generate_amount: the amount in cents               *)
(***************************************************************************)
\* the normal draw returned without the clamp
generate_amount_unclamped(g, transaction_type, is_anomaly, u) ==
    IF is_anomaly
    THEN Round2(RandUniform(g.anomaly_amount_range[1], g.anomaly_amount_range[2], u))
    ELSE LET rg == IF transaction_type \in DOMAIN g.amount_ranges
                   THEN g.amount_ranges[transaction_type]
                   ELSE DefaultAmountRange
             min_amount == rg[1] * MillsPerUnit
             max_amount == rg[2] * MillsPerUnit
             mean == (min_amount + max_amount) \div 2
             std_dev == (max_amount - min_amount) \div 6
         IN  Round2(RandNormal(mean, std_dev, u))

generate_amount(g, transaction_type, is_anomaly, u) ==
    IF is_anomaly
    THEN Round2(RandUniform(g.anomaly_amount_range[1], g.anomaly_amount_range[2], u))
    ELSE LET rg == IF transaction_type \in DOMAIN g.amount_ranges
                   THEN g.amount_ranges[transaction_type]
                   ELSE DefaultAmountRange
             min_amount == rg[1] * MillsPerUnit
             max_amount == rg[2] * MillsPerUnit
             mean == (min_amount + max_amount) \div 2
             std_dev == (max_amount - min_amount) \div 6
             amount == RandNormal(mean, std_dev, u)
         IN  Round2(Max(min_amount, Min(max_amount, amount)))

(***************************************************************************)
(* TransactionGenerator.generate_transaction.  d holds the random() values *)
(* of the draws in the order the code makes them; transaction_id is None   *)
(* or a wide integer.                                                      *)
(***************************************************************************)
None == [none |-> TRUE]

generate_transaction(g, transaction_date, transaction_id, d) ==
    LET customer_id == RandChoice(g.customer_range, d.customer)
        transaction_type == RandChoices(g.transaction_types, g.transaction_weights, d.type)
        is_anomaly == d.anomaly < g.anomaly_probability
        amount == generate_amount(g, transaction_type, is_anomaly, d.amount)
        tid == IF transaction_id = None
               THEN BigAdd(TimestampMillis(transaction_date), RandInt(1, 999, d.suffix))
               ELSE transaction_id
    IN  [transaction_id     |-> tid,
         customer_id        |-> customer_id,
         transaction_date   |-> StrfDashed(transaction_date),
         transaction_amount |-> amount,
         transaction_type   |-> transaction_type,
         is_anomaly         |-> is_anomaly]

(***************************************************************************)
(* The random module as a stream: draw number p of the stream seeded with  *)
(* seed is Rand(seed, p); a call consumes its draws in program order.      *)
(***************************************************************************)
Rand(seed, p) == (seed[1] + seed[2] * p) % RandScale

Seeds == {<<0, 0>>, <<999, 0>>, <<7, 389>>}

\* int(n * 0.7) in IEEE double arithmetic.  The double nearest 0.7 is
\* 0.7 - 0.4 * 2^-53, so the product falls short of 7n/10 by 0.4n * 2^-53;
\* when 7n/10 is an integer K the product rounds back up to K only if that
\* shortfall is at most half the spacing of the doubles below K, that is
\* if 4K <= 7 * 2^e for the largest power of two 2^e <= K.
RECURSIVE FloorPow2(_)
FloorPow2(n) == IF n < 2 THEN 1 ELSE 2 * FloorPow2(n \div 2)

IntTimes07(n) ==
    LET K == (7 * n) \div 10
    IN  IF (7 * n) % 10 = 0 /\ K > 0 /\ 4 * K > 7 * FloorPow2(K) THEN K - 1 ELSE K

DefaultMinTransactions == 50
DefaultMaxTransactions == 200

\* a sequence number that starts at 0
DailyTransactionId_zero_based(date, i) ==
    BigFromStr(StrfCompact(date) \o ZeroPad(i, 4))

\* a sequence number that goes on counting from one day to the next
DailyTransactionId_running_count(date, i) ==
    BigFromStr(StrfCompact(date) \o ZeroPad(i + 1 + hist.daily_calls, 4))

\* int(f"{date.strftime('%Y%m%d')}{i+1:04d}") for the loop index i
DailyTransactionId(date, i) ==
    BigFromStr(StrfCompact(date) \o ZeroPad(i + 1, 4))

(***************************************************************************)
(* TransactionGenerator.generate_daily_transactions, reading the stream    *)
(* from position pos: the list it returns and the stream position after.   *)
(***************************************************************************)
generate_daily_transactions(g, date, min_transactions, max_transactions, seed, pos) ==
    LET weekend == Weekday(date) >= 5
        lo == IF weekend THEN IntTimes07(min_transactions) ELSE min_transactions
        hi == IF weekend THEN IntTimes07(max_transactions) ELSE max_transactions
        num_transactions == RandInt(lo, hi, Rand(seed, pos))
        txn(i) ==
            LET at == pos + 1 + 6 * i
                hour == RandInt(6, 23, Rand(seed, at))
                minute == RandInt(0, 59, Rand(seed, at + 1))
                transaction_time == [date EXCEPT !.hour = hour, !.minute = minute,
                                                 !.second = 0, !.microsecond = 0]
                transaction_id == DailyTransactionId(date, i)
                d == [customer |-> Rand(seed, at + 2), type |-> Rand(seed, at + 3),
                      anomaly |-> Rand(seed, at + 4), amount |-> Rand(seed, at + 5),
                      suffix |-> 0]
            IN  generate_transaction(g, transaction_time, transaction_id, d)
    IN  [transactions |-> [k \in 1..num_transactions |-> txn(k - 1)],
         pos |-> pos + 1 + 6 * num_transactions]

(***************************************************************************)
(* Direct calls of the generator (the "test" command of stream_demo.py     *)
(* calls generate_transaction(datetime.now()) on a fresh generator).  The  *)
(* inputs and the random draws of one call are fixed by Init.              *)
(***************************************************************************)
DateTime(y, mo, d, h, mi, s, us) ==
    [year |-> y, month |-> mo, day |-> d, hour |-> h, minute |-> mi,
     second |-> s, microsecond |-> us]

Timestamps == {DateTime(2024, 1, 15, 10, 0, 0, 0),
               DateTime(2023, 12, 31, 23, 59, 59, 999999),
               DateTime(2024, 2, 29, 6, 7, 8, 123456)}

ExplicitIds == {BigFromStr(StrfCompact(DateTime(2024, 1, 15, 0, 0, 0, 0)) \o ZeroPad(1, 4))}

CustomerSamples == {0, 999}
TypeSamples == {20 * k + 19 : k \in 0..49}
AnomalySamples == {49, 50}
AmountSamples == {0, 150, 300, 500, 650, 800, 999}
SuffixSamples == {0, 500, 999}

CategoryInputs == {TransactionTypes[i] : i \in 1..Len(TransactionTypes)}
                  \cup {"wire_transfer"}

AmountInputs ==
    [op : {"generate_amount"}, transaction_type : CategoryInputs,
     is_anomaly : BOOLEAN, u : AmountSamples]

TransactionInputs ==
    [op : {"generate_transaction"}, transaction_date : Timestamps,
     transaction_id : {None},
     d : [customer : CustomerSamples, type : TypeSamples, anomaly : AnomalySamples,
          amount : AmountSamples, suffix : SuffixSamples]]
    \cup
    [op : {"generate_transaction"}, transaction_date : Timestamps,
     transaction_id : ExplicitIds,
     d : [customer : CustomerSamples, type : TypeSamples, anomaly : AnomalySamples,
          amount : AmountSamples, suffix : {0}]]

DailyDates == {DateTime(2024, 1, 12, 9, 30, 15, 250000),
               DateTime(2024, 1, 13, 0, 0, 0, 0),
               DateTime(2024, 1, 14, 23, 59, 59, 999999),
               DateTime(2024, 1, 15, 0, 0, 0, 0)}

DailyBounds == {<<50, 200>>, <<1, 3>>, <<10, 20>>, <<90, 90>>}

DailyInputs ==
    [op : {"generate_daily_transactions"}, date : DailyDates,
     bounds : DailyBounds, seed : Seeds]

HistIdle == [days |-> 0]

StreamIdle == [kind |-> "none", running |-> FALSE]

GenInit ==
    /\ generator = NewGenerator
    /\ pc = "call"
    /\ input \in AmountInputs \cup TransactionInputs \cup DailyInputs
    /\ output = None
    /\ rng = [seed |-> <<0, 0>>, pos |-> 0]
    /\ hist = HistIdle
    /\ stream = StreamIdle
    /\ clock = 0

CallGenerateAmount ==
    /\ pc = "call"
    /\ input.op = "generate_amount"
    /\ output' = generate_amount(generator, input.transaction_type,
                                 input.is_anomaly, input.u)
    /\ pc' = "done"
    /\ UNCHANGED <<generator, input, rng, hist, stream, clock>>

\* a call that leaves a trace on the generator it was made on
CallGenerateTransaction_drifting ==
    /\ pc = "call"
    /\ input.op = "generate_transaction"
    /\ output' = generate_transaction(generator, input.transaction_date,
                                      input.transaction_id, input.d)
    /\ pc' = "done"
    /\ generator' = [generator EXCEPT !.customer_range.stop = @ + 1]
    /\ UNCHANGED <<input, rng, hist, stream, clock>>

CallGenerateTransaction ==
    /\ pc = "call"
    /\ input.op = "generate_transaction"
    /\ output' = generate_transaction(generator, input.transaction_date,
                                      input.transaction_id, input.d)
    /\ pc' = "done"
    /\ UNCHANGED <<generator, input, rng, hist, stream, clock>>

CallGenerateDaily ==
    /\ pc = "call"
    /\ input.op = "generate_daily_transactions"
    /\ LET r == generate_daily_transactions(generator, input.date, input.bounds[1],
                                            input.bounds[2], input.seed, 0)
       IN  /\ output' = r.transactions
           /\ rng' = [seed |-> input.seed, pos |-> r.pos]
    /\ pc' = "done"
    /\ UNCHANGED <<generator, input, hist, stream, clock>>

GenNext == CallGenerateAmount \/ CallGenerateTransaction \/ CallGenerateDaily

SpecGen == GenInit /\ [][GenNext]_vars

(***************************************************************************)
(* json.dumps / json.loads of one record.  A JSON object is the function   *)
(* from its keys to the text of their values; a text is a sequence of      *)
(* characters, a category name or another fixed word counting as one       *)
(* character.  The Python type of a value is fixed by its key.             *)
(***************************************************************************)
FieldKind(k) ==
    CASE k = "transaction_id"      -> "wide"
      [] k = "customer_id"         -> "int"
      [] k = "transaction_amount"  -> "float"
      [] k = "transaction_date"    -> "chars"
      [] k = "batch_id"            -> "chars"
      [] k = "streaming_timestamp" -> "chars"
      [] k = "transaction_type"    -> "word"
      [] k = "data_source"         -> "word"
      [] k = "is_anomaly"          -> "bool"
      [] k = "loan_record_id"      -> "int"
      [] k = "first_name"          -> "word"
      [] k = "last_name"           -> "word"
      [] k = "phone_number"        -> "chars"

\* the fraction printed with a single digit
FloatRepr_one_digit(c) ==
    IntStr(c \div CentsPerUnit) \o <<".">> \o IntStr((c % CentsPerUnit) \div 10)

\* repr(x) of a float with at most two decimals, x given in cents
FloatRepr(c) ==
    LET units == c \div CentsPerUnit
        frac == c % CentsPerUnit
    IN  IntStr(units) \o <<".">> \o
        (IF frac % 10 = 0 THEN IntStr(frac \div 10) ELSE ZeroPad(frac, 2))

\* float(text), in cents
FloatParse(text) ==
    LET dot == CHOOSE i \in 1..Len(text) : text[i] = "."
        units == StrInt(SubSeq(text, 1, dot - 1))
        digits == SubSeq(text, dot + 1, Len(text))
    IN  units * CentsPerUnit
        + (IF Len(digits) = 1 THEN 10 * StrInt(digits) ELSE StrInt(digits))

Quote == "\""

JsonDumpsValue(kind, v) ==
    CASE kind = "wide"  -> BigStr(v)
      [] kind = "int"   -> IntStr(v)
      [] kind = "float" -> FloatRepr(v)
      [] kind = "chars" -> <<Quote>> \o v \o <<Quote>>
      [] kind = "word"  -> <<Quote, v, Quote>>
      [] kind = "bool"  -> IF v THEN <<"true">> ELSE <<"false">>

JsonLoadsValue(kind, text) ==
    CASE kind = "wide"  -> BigFromStr(text)
      [] kind = "int"   -> StrInt(text)
      [] kind = "float" -> FloatParse(text)
      [] kind = "chars" -> SubSeq(text, 2, Len(text) - 1)
      [] kind = "word"  -> text[2]
      [] kind = "bool"  -> text = <<"true">>

json_dumps(d) == [k \in DOMAIN d |-> JsonDumpsValue(FieldKind(k), d[k])]

json_loads(line) == [k \in DOMAIN line |-> JsonLoadsValue(FieldKind(k), line[k])]

\* {k: v for k, v in transaction.items() if k != 'is_anomaly'}
\* the comprehension without its filter
StripDebugFields_keep_all(transaction) == transaction

StripDebugFields(transaction) ==
    [k \in DOMAIN transaction \ {"is_anomaly"} |-> transaction[k]]

\* TransactionGenerator.transactions_to_json_lines: the lines that
\* '\n'.join puts together
transactions_to_json_lines(transactions) ==
    [i \in 1..Len(transactions) |-> json_dumps(StripDebugFields(transactions[i]))]

\* the file the batch exporter writes: one json.dumps line per transaction
export_file_lines(transactions) ==
    [i \in 1..Len(transactions) |-> json_dumps(StripDebugFields(transactions[i]))]

(***************************************************************************)
(* The batch exporter: historical_generator.generate_historical_data       *)
(* calling TransactionGenerator.generate_historical_data.                  *)
(***************************************************************************)
MaxDays == 3

DaysInputs == (-1)..MaxDays

Nows == {DateTime(2024, 1, 15, 10, 0, 0, 0),
         DateTime(2024, 1, 15, 23, 59, 59, 0),
         DateTime(2024, 1, 14, 23, 59, 59, 999999),
         DateTime(2024, 3, 1, 0, 0, 0, 1),
         DateTime(2024, 1, 1, 12, 30, 0, 0),
         DateTime(2023, 3, 1, 8, 0, 0, 0)}

\* a <= b on datetimes
DateTimeLeq(a, b) ==
    LET ka == <<ToOrdinal(a), a.hour, a.minute, a.second, a.microsecond>>
        kb == <<ToOrdinal(b), b.hour, b.minute, b.second, b.microsecond>>
    IN  \/ ka = kb
        \/ \E i \in 1..5 : ka[i] < kb[i] /\ \A j \in 1..(i - 1) : ka[j] = kb[j]

\* the loop test with a strict comparison
LoopContinues_strict(current_date, end_date) ==
    DateTimeLeq(current_date, end_date) /\ current_date # end_date

\* while current_date <= end_date
LoopContinues(current_date, end_date) == DateTimeLeq(current_date, end_date)

BatchInit ==
    /\ generator = NewGenerator
    /\ pc = "hist_enter"
    /\ input = [op |-> "generate_historical_data"]
    /\ output = None
    /\ \E seed \in Seeds : rng = [seed |-> seed, pos |-> 0]
    /\ \E days \in DaysInputs, now \in Nows :
           hist = [days |-> days, now |-> now, end_date |-> now, start_date |-> now,
                   current_date |-> now, all_transactions |-> <<>>,
                   daily_calls |-> 0, file |-> <<>>]
    /\ stream = StreamIdle
    /\ clock = 0

\* TransactionGenerator.generate_historical_data, up to the loop
HistEnter ==
    /\ pc = "hist_enter"
    /\ LET end_date == Midnight(hist.now)
           start_date == AddDays(end_date, -(hist.days - 1))
       IN  hist' = [hist EXCEPT !.end_date = end_date, !.start_date = start_date,
                                !.current_date = start_date,
                                !.all_transactions = <<>>]
    /\ pc' = "hist_loop"
    /\ UNCHANGED <<generator, input, output, rng, stream, clock>>

\* the day's records put in front of the list
Extend_at_front(all_transactions, daily_transactions) ==
    daily_transactions \o all_transactions

\* all_transactions.extend(daily_transactions)
Extend(all_transactions, daily_transactions) ==
    all_transactions \o daily_transactions

\* one iteration of the loop
HistIterate ==
    /\ pc = "hist_loop"
    /\ LoopContinues(hist.current_date, hist.end_date)
    /\ LET r == generate_daily_transactions(generator, hist.current_date,
                    DefaultMinTransactions, DefaultMaxTransactions, rng.seed, rng.pos)
       IN  /\ hist' = [hist EXCEPT
                          !.all_transactions = Extend(hist.all_transactions,
                                                      r.transactions),
                          !.current_date = NextDay(hist.current_date),
                          !.daily_calls = hist.daily_calls + 1]
           /\ rng' = [rng EXCEPT !.pos = r.pos]
    /\ UNCHANGED <<generator, pc, input, output, stream, clock>>

\* the loop ends and the method returns all_transactions
HistReturn ==
    /\ pc = "hist_loop"
    /\ ~LoopContinues(hist.current_date, hist.end_date)
    /\ output' = hist.all_transactions
    /\ pc' = "export_stats"
    /\ UNCHANGED <<generator, input, rng, hist, stream, clock>>

\* the exporter's summary; anomaly_count / len(transactions) raises
\* ZeroDivisionError on an empty result
ExportStats ==
    /\ pc = "export_stats"
    /\ pc' = IF Len(output) = 0 THEN "export_raised" ELSE "export_write"
    /\ UNCHANGED <<generator, input, output, rng, hist, stream, clock>>

\* the exporter writes one JSON line per transaction
ExportWrite ==
    /\ pc = "export_write"
    /\ hist' = [hist EXCEPT !.file = export_file_lines(output)]
    /\ pc' = "export_done"
    /\ UNCHANGED <<generator, input, output, rng, stream, clock>>

BatchNext == HistEnter \/ HistIterate \/ HistReturn \/ ExportStats \/ ExportWrite

SpecBatch == BatchInit /\ [][BatchNext]_vars

(***************************************************************************)
(* The streaming sinks.                                                    *)
(***************************************************************************)
\* d[k] = v
DictSet(d, k, v) == [x \in DOMAIN d \cup {k} |-> IF x = k THEN v ELSE d[x]]

\* d.pop(k, None)
DictPop(d, k) == [x \in DOMAIN d \ {k} |-> d[x]]

\* dt.strftime('%H%M%S')
StrfClock(dt) == ZeroPad(dt.hour, 2) \o ZeroPad(dt.minute, 2) \o ZeroPad(dt.second, 2)

\* datetime.now(timezone.utc).isoformat()
IsoFormatUtc(dt) ==
    StrfDashed(dt) \o <<"T">> \o ZeroPad(dt.hour, 2) \o <<":">> \o ZeroPad(dt.minute, 2)
    \o <<":">> \o ZeroPad(dt.second, 2)
    \o (IF dt.microsecond = 0 THEN <<>> ELSE <<".">> \o ZeroPad(dt.microsecond, 6))
    \o <<"+00:00">>

\* a line that does not say where it comes from
EnhancedTransaction_without_source(transaction, batch_id, streaming_timestamp) ==
    DictPop(DictSet(DictSet(transaction, "batch_id", batch_id),
                    "streaming_timestamp", streaming_timestamp),
            "is_anomaly")

\* the dict written to the file for one transaction of the batch
EnhancedTransaction(transaction, batch_id, streaming_timestamp) ==
    DictPop(DictSet(DictSet(DictSet(transaction, "data_source", "STREAMING"),
                            "batch_id", batch_id),
                    "streaming_timestamp", streaming_timestamp),
            "is_anomaly")

\* batch_id = f"batch_{now:%Y%m%d_%H%M%S}_{uuid4().hex[:8]}"
BatchId(now, uuid8) ==
    <<"batch_">> \o StrfCompact(now) \o <<"_">> \o StrfClock(now) \o <<"_", uuid8>>

\* SnowpipeFileStreamer._create_batch_file: the name and the lines of the
\* file; uuid8 stands for uuid.uuid4().hex[:8]
create_batch_file(transactions, now, uuid8) ==
    LET batch_id == BatchId(now, uuid8)
        streaming_timestamp == IsoFormatUtc(now)
        enhanced(t) == EnhancedTransaction(t, batch_id, streaming_timestamp)
    IN  [filename |-> <<"streaming_transactions_">> \o batch_id \o <<".json">>,
         lines |-> [i \in 1..Len(transactions) |-> json_dumps(enhanced(transactions[i]))]]

InsertColumns == {"transaction_id", "customer_id", "transaction_date",
                  "transaction_amount", "transaction_type", "data_source"}

\* SimpleRealtimeStreamer._send_to_snowflake: the value returned and the row
\* that reaches TRANSACTIONS_TABLE; raises tells whether cursor.execute fails
send_to_snowflake(sf_connection, transaction, raises) ==
    IF ~sf_connection THEN [ok |-> FALSE, rows |-> <<>>]
    ELSE LET enhanced_transaction == DictSet(transaction, "data_source", "STREAMING")
         IN  IF raises THEN [ok |-> FALSE, rows |-> <<>>]
             ELSE [ok |-> TRUE,
                   rows |-> <<[c \in InsertColumns |-> enhanced_transaction[c]]>>]

\* SnowpipeFileStreamer._upload_and_ingest: the value returned and the file
\* given to the stage; raises tells whether PUT or COPY fails
upload_and_ingest(sf_connection, file, raises) ==
    IF ~sf_connection THEN [ok |-> FALSE, staged |-> <<>>]
    ELSE IF raises THEN [ok |-> FALSE, staged |-> <<>>]
         ELSE [ok |-> TRUE, staged |-> <<file>>]

\* the callee wrote into the caller's own dict
CallerKeeps_alias(transaction, written) == written

\* transaction.copy() and {k: v for k, v in transaction.items() ...} make a
\* new dict and the callee writes only into that one: what the caller's
\* dict holds once the callee has produced written
CallerKeeps(transaction, written) == transaction

\* the caller's list of records after transactions_to_json_lines, and the
\* same after the file export
transactions_after_json_lines(transactions) ==
    [i \in 1..Len(transactions) |->
        CallerKeeps(transactions[i], StripDebugFields(transactions[i]))]

\* the caller's list of records after _create_batch_file
transactions_after_create_batch_file(transactions, now, uuid8) ==
    [i \in 1..Len(transactions) |->
        CallerKeeps(transactions[i],
                    EnhancedTransaction(transactions[i], BatchId(now, uuid8),
                                        IsoFormatUtc(now)))]

\* the caller's record after _send_to_snowflake
transaction_after_send(sf_connection, transaction) ==
    IF ~sf_connection THEN transaction
    ELSE CallerKeeps(transaction, DictSet(transaction, "data_source", "STREAMING"))

(***************************************************************************)
(* Direct calls of the serialisers and sinks on a short list of generated  *)
(* records.                                                                *)
(***************************************************************************)
MaxBatchLen == 2

ExportRecords ==
    {generate_transaction(NewGenerator, DateTime(2024, 1, 15, 10, 0, 0, 0), id,
                          [customer |-> 999, type |-> ty, anomaly |-> an,
                           amount |-> am, suffix |-> 999]) :
        id \in {None} \cup ExplicitIds, ty \in {19, 719}, an \in AnomalySamples,
        am \in {650, 999}}

RECURSIVE SeqsUpTo(_, _)
SeqsUpTo(S, n) ==
    IF n = 0 THEN {<<>>}
    ELSE LET shorter == SeqsUpTo(S, n - 1)
         IN  shorter \cup {Append(q, x) : q \in shorter, x \in S}

ExportInputs ==
    [op : {"transactions_to_json_lines", "export_file"},
     transactions : SeqsUpTo(ExportRecords, MaxBatchLen)]
    \cup
    [op : {"_create_batch_file"}, transactions : SeqsUpTo(ExportRecords, MaxBatchLen),
     now : {DateTime(2024, 1, 15, 10, 0, 7, 0), DateTime(2024, 3, 1, 0, 0, 0, 1)},
     uuid8 : {"1a2b3c4d"}]
    \cup
    [op : {"_send_to_snowflake"}, transaction : ExportRecords,
     sf_connection : BOOLEAN, raises : BOOLEAN]
    \cup
    [op : {"_upload_and_ingest"},
     file : {create_batch_file(<<t>>, DateTime(2024, 1, 15, 10, 0, 7, 0), "1a2b3c4d") :
                t \in ExportRecords},
     sf_connection : BOOLEAN, raises : BOOLEAN]

ExportInit ==
    /\ generator = NewGenerator
    /\ pc = "call"
    /\ input \in ExportInputs
    /\ output = None
    /\ rng = [seed |-> <<0, 0>>, pos |-> 0]
    /\ hist = HistIdle
    /\ stream = StreamIdle
    /\ clock = 0

CallToJsonLines ==
    /\ pc = "call"
    /\ input.op = "transactions_to_json_lines"
    /\ output' = transactions_to_json_lines(input.transactions)
    /\ input' = [input EXCEPT
                    !.transactions = transactions_after_json_lines(input.transactions)]
    /\ pc' = "done"
    /\ UNCHANGED <<generator, rng, hist, stream, clock>>

CallExportFile ==
    /\ pc = "call"
    /\ input.op = "export_file"
    /\ output' = export_file_lines(input.transactions)
    /\ input' = [input EXCEPT
                    !.transactions = transactions_after_json_lines(input.transactions)]
    /\ pc' = "done"
    /\ UNCHANGED <<generator, rng, hist, stream, clock>>

CallCreateBatchFile ==
    /\ pc = "call"
    /\ input.op = "_create_batch_file"
    /\ output' = create_batch_file(input.transactions, input.now, input.uuid8)
    /\ input' = [input EXCEPT
                    !.transactions = transactions_after_create_batch_file(
                                         input.transactions, input.now, input.uuid8)]
    /\ pc' = "done"
    /\ UNCHANGED <<generator, rng, hist, stream, clock>>

CallSendToSnowflake ==
    /\ pc = "call"
    /\ input.op = "_send_to_snowflake"
    /\ output' = send_to_snowflake(input.sf_connection, input.transaction, input.raises)
    /\ input' = [input EXCEPT
                    !.transaction = transaction_after_send(input.sf_connection,
                                                           input.transaction)]
    /\ pc' = "done"
    /\ UNCHANGED <<generator, rng, hist, stream, clock>>

CallUploadAndIngest ==
    /\ pc = "call"
    /\ input.op = "_upload_and_ingest"
    /\ output' = upload_and_ingest(input.sf_connection, input.file, input.raises)
    /\ pc' = "done"
    /\ UNCHANGED <<generator, input, rng, hist, stream, clock>>

ExportNext == CallToJsonLines \/ CallExportFile \/ CallCreateBatchFile
              \/ CallSendToSnowflake \/ CallUploadAndIngest

SpecExport == ExportInit /\ [][ExportNext]_vars

\* every call of the generator's five methods: the direct calls, the
\* historical run and the serialisers
CallsNext == GenNext \/ BatchNext \/ ExportNext

SpecCalls == (GenInit \/ BatchInit \/ ExportInit) /\ [][CallsNext]_vars

(***************************************************************************)
(* SimpleRealtimeStreamer, started by the "start" command of               *)
(* stream_demo.py.  rate is in transactions per second, duration in        *)
(* seconds or None, times in milliseconds.                                 *)
(***************************************************************************)
MaxTicks == 2

StreamDay == DateTime(2024, 1, 15, 0, 0, 0, 0)

\* datetime.now() when the wall clock shows c
NowAt(c) ==
    LET d == AddDays(StreamDay, c \div 86400000)
        t == c % 86400000
    IN  [d EXCEPT !.hour = t \div 3600000, !.minute = (t % 3600000) \div 60000,
                  !.second = (t % 60000) \div 1000,
                  !.microsecond = (t % 1000) * 1000]

\* an optional number or text: <<>> for None, <<x>> for x
Nothing == <<>>

Some(x) == <<x>>

\* --rate: a zero rate falls back to one transaction per second
Rates == {0, 2, 2000}
Durations == {Nothing, Some(0), Some(1)}
\* --anomaly-rate, any float, in units of 1/RandScale
AnomalyRates == {-200, 50, 1500}
StartClocks == {86399600}
SleepOvershoots == {0, 1}
StreamSuffixSamples == {0, 501, 999}

NewStats == [total_transactions |-> 0, successful_sends |-> 0, failed_sends |-> 0,
             anomalies |-> 0, start_time |-> None, current_date |-> Nothing]

\* state after SimpleRealtimeStreamer(rate, anomaly_rate) has been built
StreamInit ==
    /\ \E anomaly_rate \in AnomalyRates :
           generator = [NewGenerator EXCEPT !.anomaly_probability = anomaly_rate]
    /\ pc = "constructed"
    /\ \E duration \in Durations : input = [op |-> "stream_transactions",
                                            duration_seconds |-> duration]
    /\ output = None
    /\ rng = [seed |-> <<0, 0>>, pos |-> 0]
    /\ hist = HistIdle
    /\ \E rate \in Rates, conn \in BOOLEAN :
           stream = [kind |-> "insert", rate |-> rate, running |-> FALSE,
                     stats |-> NewStats,
                     sf_connection |-> conn, interval |-> 0, end_time |-> Nothing,
                     history |-> <<>>, sends |-> <<>>, signal_at |-> Nothing,
                     early_signal |-> FALSE]
    /\ clock \in StartClocks

\* stream_transactions raising the flag and stamping the start before it
\* looks for the connection
StreamStart_stamps_first ==
    /\ pc = "constructed"
    /\ LET stamped == [stream EXCEPT
               !.running = TRUE,
               !.stats = [stream.stats EXCEPT
                             !.start_time = NowAt(clock),
                             !.current_date = Some(StrfDashed(NowAt(clock)))]]
       IN  IF ~stream.sf_connection
           THEN /\ pc' = "stream_returned"
                /\ stream' = stamped
           ELSE /\ pc' = "stream_loop"
                /\ stream' = [stamped EXCEPT
                      !.interval = IF stream.rate > 0 THEN 1000 \div stream.rate ELSE 1000,
                      !.end_time = IF input.duration_seconds # Nothing
                                      /\ input.duration_seconds[1] # 0
                                   THEN Some(clock + 1000 * input.duration_seconds[1])
                                   ELSE Nothing]
    /\ UNCHANGED <<generator, input, output, rng, hist, clock>>

\* stream_transactions up to the loop
StreamStart ==
    /\ pc = "constructed"
    /\ IF ~stream.sf_connection
       THEN /\ pc' = "stream_returned"
            /\ UNCHANGED stream
       ELSE /\ pc' = "stream_loop"
            /\ stream' = [stream EXCEPT
                  !.running = TRUE,
                  !.stats = [stream.stats EXCEPT !.start_time = NowAt(clock),
                                                 !.current_date = Some(StrfDashed(NowAt(clock)))],
                  !.interval = IF stream.rate > 0 THEN 1000 \div stream.rate ELSE 1000,
                  !.end_time = IF input.duration_seconds # Nothing
                                  /\ input.duration_seconds[1] # 0
                               THEN Some(clock + 1000 * input.duration_seconds[1])
                               ELSE Nothing]
    /\ UNCHANGED <<generator, input, output, rng, hist, clock>>

\* a loop test that looks at the time limit only
StreamLoopTest_without_flag ==
    ~(stream.end_time # Nothing /\ clock >= stream.end_time[1])

\* while self.running: if end_time and time.time() >= end_time: break
StreamLoopTest ==
    /\ stream.running
    /\ ~(stream.end_time # Nothing /\ clock >= stream.end_time[1])

\* the top of the loop lets one more iteration start
StreamTest ==
    /\ pc = "stream_loop"
    /\ StreamLoopTest
    /\ stream.stats.total_transactions < MaxTicks
    /\ pc' = "stream_body"
    /\ UNCHANGED <<generator, input, output, rng, hist, stream, clock>>

\* success = self._send_to_snowflake(transaction): the calls of the sink
\* made for the transaction of iteration tick
SendAttempts(tick, ok) == <<[tick |-> tick, ok |-> ok]>>

\* a loop that a failed send breaks
AfterSend_break(success) == IF success THEN "stream_sleep" ELSE "stream_returned"

\* after the counting the iteration goes on to its sleep, whether the send
\* succeeded or not
AfterSend(success) == "stream_sleep"

\* a count of the transactions that arrived only
CountSend_arrived_only(stats, success) ==
    IF success
    THEN [stats EXCEPT !.total_transactions = @ + 1, !.successful_sends = @ + 1]
    ELSE [stats EXCEPT !.failed_sends = @ + 1]

\* self.stats['total_transactions'] += 1, then successful_sends or
\* failed_sends += 1
CountSend(stats, success) ==
    LET counted == [stats EXCEPT !.total_transactions = @ + 1]
    IN  IF success
        THEN [counted EXCEPT !.successful_sends = @ + 1]
        ELSE [counted EXCEPT !.failed_sends = @ + 1]

\* the body of one iteration: generate, send, count
StreamTick ==
    /\ pc = "stream_body"
    /\ \E an \in AnomalySamples, sfx \in StreamSuffixSamples, raises \in BOOLEAN :
          LET current_time == NowAt(clock)
              transaction == generate_transaction(generator, current_time, None,
                                 [customer |-> 999, type |-> 19, anomaly |-> an,
                                  amount |-> 650, suffix |-> sfx])
              r == send_to_snowflake(stream.sf_connection, transaction, raises)
              st == stream.stats
          IN  /\ stream' = [stream EXCEPT
                     !.stats = [CountSend(st, r.ok) EXCEPT
                         !.anomalies = st.anomalies
                                       + (IF transaction.is_anomaly THEN 1 ELSE 0)],
                     !.history = Append(stream.history,
                                        [time |-> current_time, clock |-> clock,
                                         transaction |-> transaction,
                                         rows |-> r.rows]),
                     !.sends = stream.sends
                               \o SendAttempts(st.total_transactions + 1, r.ok)]
              /\ output' = transaction
              /\ pc' = AfterSend(r.ok)
    /\ UNCHANGED <<generator, input, rng, hist, clock>>

\* time.sleep(interval): a signal handled meanwhile does not cut it short
StreamSleep ==
    /\ pc = "stream_sleep"
    /\ \E over \in SleepOvershoots : clock' = clock + stream.interval + over
    /\ pc' = "stream_loop"
    /\ UNCHANGED <<generator, input, output, rng, hist, stream>>

\* the loop ends: the connection is closed and the summary printed
StreamExit ==
    /\ pc = "stream_loop"
    /\ ~StreamLoopTest
    /\ stream' = [stream EXCEPT !.sf_connection = FALSE]
    /\ pc' = "stream_returned"
    /\ UNCHANGED <<generator, input, output, rng, hist, clock>>

\* _signal_handler, on SIGINT or SIGTERM, run between two steps of the
\* main thread; signal_at remembers where the first one found the loop, and
\* early_signal that one came between the constructor, which installs the
\* handler, and the call of stream_transactions; such an early signal is
\* followed up for the calls made without a duration only
StreamSignal ==
    /\ \/ /\ pc = "constructed"
          /\ ~stream.early_signal
          /\ input.duration_seconds = Nothing
          /\ stream' = [stream EXCEPT !.running = FALSE, !.early_signal = TRUE]
       \/ /\ pc \in {"stream_loop", "stream_body", "stream_sleep"}
          /\ stream.running
          /\ stream' = [stream EXCEPT
                 !.running = FALSE,
                 !.signal_at = Some([pc |-> pc,
                                     ticks |-> stream.stats.total_transactions,
                                     clock |-> clock])]
    /\ UNCHANGED <<generator, pc, input, output, rng, hist, clock>>

StreamNext ==
    StreamStart \/ StreamTest \/ StreamTick \/ StreamSleep \/ StreamExit \/ StreamSignal

SpecStream == StreamInit /\ [][StreamNext]_vars

(***************************************************************************)
(* SnowpipeFileStreamer: the same loop, but the transactions are collected *)
(* in batch_transactions and handed to the stage one file per batch.       *)
(***************************************************************************)
\* --batch-size; 100 is the default
BatchSizes == {1, 2, 100}

PipeSuffixSamples == {501}

NewPipeStats == [total_transactions |-> 0, successful_batches |-> 0,
                 failed_batches |-> 0, files_uploaded |-> 0, anomalies |-> 0,
                 start_time |-> None, current_date |-> Nothing]

\* filepath = self._create_batch_file(batch); success = self._upload_and_ingest(filepath)
\* and the counting that follows; ticks names the iterations whose
\* transactions are in the file
UploadBatch(s, now, raises) ==
    LET file == create_batch_file([i \in 1..Len(s.batch) |-> s.batch[i].transaction],
                                  now, "1a2b3c4d")
        r == upload_and_ingest(s.sf_connection, file, raises)
        st == s.stats
    IN  [s EXCEPT
            !.stats = [st EXCEPT
                !.successful_batches = st.successful_batches + (IF r.ok THEN 1 ELSE 0),
                !.files_uploaded = st.files_uploaded + (IF r.ok THEN 1 ELSE 0),
                !.failed_batches = st.failed_batches + (IF r.ok THEN 0 ELSE 1)],
            !.uploads = Append(s.uploads,
                               [ticks |-> [i \in 1..Len(s.batch) |-> s.batch[i].tick],
                                filename |-> file.filename,
                                lines |-> Len(file.lines), ok |-> r.ok])]

\* a batch that is uploaded only once it has outgrown batch_size
BatchFull_outgrown(batch_transactions, batch_size) ==
    Len(batch_transactions) > batch_size

\* if len(batch_transactions) >= self.batch_size
BatchFull(batch_transactions, batch_size) ==
    Len(batch_transactions) >= batch_size

\* a batch that is kept for the next upload when its own upload failed
ResetBatch_keep_failed(batch, success) == IF success THEN <<>> ELSE batch

\* batch_transactions = []  # Reset batch
ResetBatch(batch, success) == <<>>

\* state after SnowpipeFileStreamer(rate, batch_size, anomaly_rate) has been built
PipeInit ==
    /\ generator = [NewGenerator EXCEPT !.anomaly_probability = DefaultAnomalyProbability]
    /\ pc = "pipe_constructed"
    /\ \E duration \in Durations : input = [op |-> "stream_transactions",
                                            duration_seconds |-> duration]
    /\ output = None
    /\ rng = [seed |-> <<0, 0>>, pos |-> 0]
    /\ hist = HistIdle
    /\ \E rate \in Rates, batch_size \in BatchSizes, conn \in BOOLEAN :
           stream = [kind |-> "snowpipe", rate |-> rate, batch_size |-> batch_size,
                     running |-> FALSE, stats |-> NewPipeStats,
                     sf_connection |-> conn, interval |-> 0, end_time |-> Nothing,
                     history |-> <<>>, batch |-> <<>>, uploads |-> <<>>,
                     signal_at |-> Nothing]
    /\ clock \in StartClocks

\* stream_transactions up to the loop
PipeStart ==
    /\ pc = "pipe_constructed"
    /\ IF ~stream.sf_connection
       THEN /\ pc' = "pipe_returned"
            /\ UNCHANGED stream
       ELSE /\ pc' = "pipe_loop"
            /\ stream' = [stream EXCEPT
                  !.running = TRUE,
                  !.stats = [stream.stats EXCEPT !.start_time = NowAt(clock),
                                                 !.current_date = Some(StrfDashed(NowAt(clock)))],
                  !.batch = <<>>,
                  !.interval = IF stream.rate > 0 THEN 1000 \div stream.rate ELSE 1000,
                  !.end_time = IF input.duration_seconds # Nothing
                                  /\ input.duration_seconds[1] # 0
                               THEN Some(clock + 1000 * input.duration_seconds[1])
                               ELSE Nothing]
    /\ UNCHANGED <<generator, input, output, rng, hist, clock>>

\* the top of the loop lets one more iteration start
PipeTest ==
    /\ pc = "pipe_loop"
    /\ StreamLoopTest
    /\ stream.stats.total_transactions < MaxTicks
    /\ pc' = "pipe_body"
    /\ UNCHANGED <<generator, input, output, rng, hist, stream, clock>>

\* the body of one iteration: generate, collect, count, upload a full batch
PipeTick ==
    /\ pc = "pipe_body"
    /\ \E an \in AnomalySamples, sfx \in PipeSuffixSamples, raises \in BOOLEAN :
          LET current_time == NowAt(clock)
              transaction == generate_transaction(generator, current_time, None,
                                 [customer |-> 999, type |-> 19, anomaly |-> an,
                                  amount |-> 650, suffix |-> sfx])
              st == stream.stats
              tick == st.total_transactions + 1
              collected == [stream EXCEPT
                  !.batch = Append(stream.batch,
                                   [tick |-> tick, transaction |-> transaction]),
                  !.stats = [st EXCEPT
                      !.total_transactions = tick,
                      !.anomalies = st.anomalies
                                    + (IF transaction.is_anomaly THEN 1 ELSE 0)],
                  !.history = Append(stream.history,
                                     [time |-> current_time, clock |-> clock,
                                      transaction |-> transaction])]
          IN  /\ IF BatchFull(collected.batch, stream.batch_size)
                 THEN LET uploaded == UploadBatch(collected, current_time, raises)
                          success == uploaded.uploads[Len(uploaded.uploads)].ok
                      IN  stream' = [uploaded EXCEPT
                                        !.batch = ResetBatch(collected.batch, success)]
                 ELSE /\ ~raises
                      /\ stream' = collected
              /\ output' = transaction
    /\ pc' = "pipe_sleep"
    /\ UNCHANGED <<generator, input, rng, hist, clock>>

\* time.sleep(transaction_interval)
PipeSleep ==
    /\ pc = "pipe_sleep"
    /\ \E over \in SleepOvershoots : clock' = clock + stream.interval + over
    /\ pc' = "pipe_loop"
    /\ UNCHANGED <<generator, input, output, rng, hist, stream>>

\* the loop ends: what is left in the batch is uploaded, the connection closed
PipeExit ==
    /\ pc = "pipe_loop"
    /\ ~StreamLoopTest
    /\ \E raises \in BOOLEAN :
          IF Len(stream.batch) > 0
          THEN stream' = [UploadBatch(stream, NowAt(clock), raises)
                              EXCEPT !.sf_connection = FALSE]
          ELSE /\ ~raises
               /\ stream' = [stream EXCEPT !.sf_connection = FALSE]
    /\ pc' = "pipe_returned"
    /\ UNCHANGED <<generator, input, output, rng, hist, clock>>

\* _signal_handler, on SIGINT or SIGTERM
PipeSignal ==
    /\ pc \in {"pipe_loop", "pipe_body", "pipe_sleep"}
    /\ stream.running
    /\ stream' = [stream EXCEPT
           !.running = FALSE,
           !.signal_at = Some([pc |-> pc, ticks |-> stream.stats.total_transactions,
                               clock |-> clock])]
    /\ UNCHANGED <<generator, pc, input, output, rng, hist, clock>>

PipeNext == PipeStart \/ PipeTest \/ PipeTick \/ PipeSleep \/ PipeExit \/ PipeSignal

SpecPipe == PipeInit /\ [][PipeNext]_vars

\* either streamer
SpecStreams == (StreamInit \/ PipeInit) /\ [][StreamNext \/ PipeNext]_vars

\* the sinks called directly and from the loops of both streamers
SinksNext == StreamNext \/ PipeNext \/ ExportNext

SpecSinks == (StreamInit \/ PipeInit \/ ExportInit) /\ [][SinksNext]_vars

(***************************************************************************)
(* The customer generator (src/streaming/customer_generator.py).  The     *)
(* command `generate` calls generate_customers, save_to_json and          *)
(* generate_insert_statements in this order.                              *)
(***************************************************************************)
MaxCustomers == 5001

DefaultNumCustomers == 5000

first_names ==
    <<"James", "Mary", "John", "Patricia", "Robert", "Jennifer", "Michael",
      "Linda", "William", "Elizabeth", "David", "Barbara", "Richard",
      "Susan", "Joseph", "Jessica", "Thomas", "Sarah", "Christopher",
      "Karen", "Charles", "Nancy", "Daniel", "Lisa", "Matthew", "Betty",
      "Anthony", "Helen", "Mark", "Sandra", "Donald", "Donna", "Steven",
      "Carol", "Paul", "Ruth", "Andrew", "Sharon", "Joshua", "Michelle",
      "Kenneth", "Laura", "Kevin", "Sarah", "Brian", "Kimberly", "George",
      "Deborah", "Timothy", "Dorothy", "Ronald", "Lisa", "Jason", "Nancy",
      "Edward", "Karen", "Jeffrey", "Betty", "Ryan", "Helen", "Jacob",
      "Sandra", "Gary", "Donna", "Nicholas", "Carol", "Eric", "Ruth",
      "Jonathan", "Sharon", "Stephen", "Michelle", "Larry", "Laura",
      "Justin", "Sarah", "Scott", "Kimberly", "Brandon", "Deborah",
      "Benjamin", "Dorothy", "Samuel", "Amy", "Gregory", "Angela",
      "Alexander", "Emily", "Patrick", "Brenda", "Frank", "Emma",
      "Raymond", "Olivia", "Jack", "Cynthia">>

last_names ==
    <<"Smith", "Johnson", "Williams", "Brown", "Jones", "Garcia", "Miller",
      "Davis", "Rodriguez", "Martinez", "Hernandez", "Lopez", "Gonzalez",
      "Wilson", "Anderson", "Thomas", "Taylor", "Moore", "Jackson",
      "Martin", "Lee", "Perez", "Thompson", "White", "Harris", "Sanchez",
      "Clark", "Ramirez", "Lewis", "Robinson", "Walker", "Young", "Allen",
      "King", "Wright", "Scott", "Torres", "Nguyen", "Hill", "Flores",
      "Green", "Adams", "Nelson", "Baker", "Hall", "Rivera", "Campbell",
      "Mitchell", "Carter", "Roberts", "Gomez", "Phillips", "Evans",
      "Turner", "Diaz", "Parker", "Cruz", "Edwards", "Collins", "Reyes",
      "Stewart", "Morris", "Morales", "Murphy", "Cook", "Rogers",
      "Gutierrez", "Ortiz", "Morgan", "Cooper", "Peterson", "Bailey",
      "Reed", "Kelly", "Howard", "Ramos", "Kim", "Cox", "Ward",
      "Richardson", "Watson", "Brooks", "Chavez", "Wood", "James",
      "Bennett", "Gray", "Mendoza", "Ruiz", "Hughes", "Price", "Alvarez",
      "Castillo", "Sanders", "Patel", "Myers">>

area_codes ==
    <<"212", "646", "917", "718", "347", "929", "415", "628", "650", "925",
      "510", "213", "323", "310", "424", "747", "305", "786", "954", "561",
      "239", "312", "773", "630", "708", "847", "617", "857", "781", "339",
      "508", "206", "253", "425", "360", "564", "303", "720", "970", "719",
      "404", "678", "770", "470", "512", "737", "713", "281", "832", "409">>

\* random.choice(seq) for a draw u
ListChoice(seq, u) == seq[1 + (u * Len(seq)) \div RandScale]

\* f"({area_code}) {exchange}-{number}"
generate_phone_number(seed, pos) ==
    LET area_code == ListChoice(area_codes, Rand(seed, pos))
        exchange == IntStr(RandInt(200, 999, Rand(seed, pos + 1)))
        number == IntStr(RandInt(1000, 9999, Rand(seed, pos + 2)))
    IN  <<"(", area_code, ")", " ">> \o exchange \o <<"-">> \o number

\* the number of draws one customer takes
DrawsPerCustomer == 5

\* CustomerGenerator.generate_customer; loan_record_id is Nothing for None
generate_customer(customer_id, loan_record_id, seed, pos) ==
    LET customer == [customer_id |-> customer_id,
                     first_name |-> ListChoice(first_names, Rand(seed, pos)),
                     last_name |-> ListChoice(last_names, Rand(seed, pos + 1)),
                     phone_number |-> generate_phone_number(seed, pos + 2)]
    IN  IF loan_record_id # Nothing
        THEN DictSet(customer, "loan_record_id", loan_record_id[1])
        ELSE customer

\* customers up to 5799 only
HasMortgage_below_5800(customer_id) == customer_id < 5800

\* if customer_id <= 5800
HasMortgage(customer_id) == customer_id <= 5800

\* list(range(1001, 1001 + num_customers))
CustomerIds(num_customers) ==
    [i \in 1..Max(num_customers, 0) |-> 1000 + i]

\* CustomerGenerator.generate_customers
generate_customers(num_customers, seed, pos) ==
    LET customer_ids == CustomerIds(num_customers)
    IN  [i \in 1..Len(customer_ids) |->
            LET customer_id == customer_ids[i]
                p == pos + DrawsPerCustomer * (i - 1)
            IN  IF HasMortgage(customer_id)
                THEN generate_customer(customer_id, Some(customer_id - 1000), seed, p)
                ELSE generate_customer(customer_id, Nothing, seed, p)]

\* CustomerGenerator.save_to_json: one json.dump line per customer
save_to_json(customers) == [i \in 1..Len(customers) |-> json_dumps(customers[i])]

\* datetime.now().isoformat()
IsoFormat(dt) ==
    StrfDashed(dt) \o <<"T">> \o ZeroPad(dt.hour, 2) \o <<":">> \o ZeroPad(dt.minute, 2)
    \o <<":">> \o ZeroPad(dt.second, 2)
    \o (IF dt.microsecond = 0 THEN <<>> ELSE <<".">> \o ZeroPad(dt.microsecond, 6))

\* '{text}' in the VALUES list
SqlQuoted(text) == <<"'">> \o text \o <<"'">>

\* the INSERT statement of one customer: its column list and its VALUES list
InsertStatement(customer) ==
    LET common == [columns |-> <<"customer_id", "first_name", "last_name", "phone_number">>,
                   values |-> <<IntStr(customer.customer_id),
                                SqlQuoted(<<customer.first_name>>),
                                SqlQuoted(<<customer.last_name>>),
                                SqlQuoted(customer.phone_number)>>]
    IN  IF "loan_record_id" \in DOMAIN customer
        THEN [table |-> "CUSTOMER_TABLE",
              columns |-> Append(common.columns, "loan_record_id"),
              values |-> Append(common.values, IntStr(customer.loan_record_id))]
        ELSE [table |-> "CUSTOMER_TABLE", columns |-> common.columns,
              values |-> common.values]

\* the five lines in front of the statements
InsertHeader(now) ==
    << <<"-- Generated customer data INSERT statements">>,
       <<"-- Generated: ">> \o IsoFormat(now),
       <<"-- Target: CUSTOMER_TABLE">>,
       <<"-- Note: customers 1001-5800 have mortgages, 5801-6000 do not">>,
       <<>> >>

\* CustomerGenerator.generate_insert_statements
generate_insert_statements(customers, now) ==
    [header |-> InsertHeader(now),
     statements |-> [i \in 1..Len(customers) |-> InsertStatement(customers[i])]]

NumCustomersInputs ==
    {-1, 0, 1, 2, 3, 4799, 4800, 4801, 4802, DefaultNumCustomers, MaxCustomers}

CustInit ==
    /\ generator = NewGenerator
    /\ pc = "cust_call"
    /\ \E n \in NumCustomersInputs : input = [op |-> "generate", customers |-> n]
    /\ output = None
    /\ \E seed \in Seeds : rng = [seed |-> seed, pos |-> 0]
    /\ hist = HistIdle
    /\ stream = StreamIdle
    /\ clock \in StartClocks

\* customer_data = generator.generate_customers(customers)
CustGenerate ==
    /\ pc = "cust_call"
    /\ LET customers == generate_customers(input.customers, rng.seed, rng.pos)
       IN  /\ output' = [customer_data |-> customers]
           /\ rng' = [rng EXCEPT !.pos = @ + DrawsPerCustomer * Len(customers)]
    /\ pc' = "cust_generated"
    /\ UNCHANGED <<generator, input, hist, stream, clock>>

\* generator.save_to_json(customer_data, output_dir / 'customer_data.json')
CustSave ==
    /\ pc = "cust_generated"
    /\ output' = [customer_data |-> output.customer_data,
                  json_file |-> save_to_json(output.customer_data)]
    /\ pc' = "cust_saved"
    /\ UNCHANGED <<generator, input, rng, hist, stream, clock>>

\* sql_statements = generator.generate_insert_statements(customer_data)
CustInsertStatements ==
    /\ pc = "cust_saved"
    /\ output' = [customer_data |-> output.customer_data,
                  json_file |-> output.json_file,
                  sql_statements |-> generate_insert_statements(output.customer_data,
                                                                NowAt(clock))]
    /\ pc' = "cust_done"
    /\ UNCHANGED <<generator, input, rng, hist, stream, clock>>

CustNext == CustGenerate \/ CustSave \/ CustInsertStatements

SpecCustomers == CustInit /\ [][CustNext]_vars

(***************************************************************************)
(* Properties of single calls (SpecGen)                                    *)
(***************************************************************************)
Called(op) == pc = "done" /\ input.op = op

\* a call that yields one amount has finished
AmountCalled == Called("generate_amount") \/ Called("generate_transaction")

\* the (is_anomaly, amount in cents, category) of the finished call
ResultAnomaly == IF input.op = "generate_amount" THEN input.is_anomaly
                 ELSE output.is_anomaly

ResultAmount == IF input.op = "generate_amount" THEN output
                ELSE output.transaction_amount

ResultType == IF input.op = "generate_amount" THEN input.transaction_type
              ELSE output.transaction_type

\* C1: a non-anomalous amount, from generate_amount on a category of the
\* table or inside a record of generate_transaction, lies within the
\* declared [min, max] of its category.
C1_NormalAmountWithinCategoryRange ==
    (AmountCalled /\ ~ResultAnomaly /\ ResultType \in DOMAIN generator.amount_ranges)
    => /\ generator.amount_ranges[ResultType][1] * CentsPerUnit <= ResultAmount
       /\ ResultAmount <= generator.amount_ranges[ResultType][2] * CentsPerUnit

\* a normal draw beyond +3 sigma was clamped to the ceiling of its category
C1_Witness ==
    /\ Called("generate_transaction")
    /\ ~output.is_anomaly
    /\ input.d.amount = 999
    /\ output.transaction_type = "luxury_purchase"
    /\ output.transaction_amount = 5000 * CentsPerUnit

\* C2: an anomalous amount lies in the anomaly range [25000, 75000]; the
\* floor of that range is above the ceiling of every category; and every
\* non-anomalous amount is below that floor, so that in any set of records
\* each anomalous amount exceeds each non-anomalous one.
C2_AnomalyRangeAboveEveryCategory ==
    AmountCalled =>
        /\ ResultAnomaly => /\ 25000 * CentsPerUnit <= ResultAmount
                            /\ ResultAmount <= 75000 * CentsPerUnit
        /\ generator.anomaly_amount_range = <<25000, 75000>>
        /\ \A t \in DOMAIN generator.amount_ranges :
               generator.anomaly_amount_range[1] > generator.amount_ranges[t][2]
        /\ ~ResultAnomaly =>
               ResultAmount < generator.anomaly_amount_range[1] * CentsPerUnit

\* an anomalous luxury_purchase record drawn at the bottom of the anomaly range
C2_Witness ==
    /\ Called("generate_transaction")
    /\ output.is_anomaly
    /\ output.transaction_type = "luxury_purchase"
    /\ output.transaction_amount = 25000 * CentsPerUnit

GlossaryCategories ==
    {"leisure_payment", "subscription_fee", "travel_expense", "shopping", "dining",
     "entertainment", "fitness_wellness", "education", "luxury_purchase",
     "miscellaneous"}

\* s is the text YYYY-MM-DD of the date of dt
IsIsoDateOf(s, dt) ==
    /\ Len(s) = 10
    /\ s[5] = "-" /\ s[8] = "-"
    /\ \A i \in {1, 2, 3, 4, 6, 7, 9, 10} : IsDigitChar(s[i])
    /\ StrInt(SubSeq(s, 1, 4)) = dt.year
    /\ StrInt(SubSeq(s, 6, 7)) = dt.month
    /\ StrInt(SubSeq(s, 9, 10)) = dt.day

IsSaturdayOrSunday(dt) ==
    (ToOrdinal(dt) - ToOrdinal(DateTime(2024, 1, 13, 0, 0, 0, 0))) % 7 \in {0, 1}

\* C4: generate_daily_transactions(date, min, max) returns n records with
\* floor(0.7 * min) <= n <= floor(0.7 * max) on a Saturday or Sunday and
\* min <= n <= max on the other days.
C4_DailyCountWithinScaledBounds ==
    Called("generate_daily_transactions") =>
        LET n == Len(output)
            min_t == input.bounds[1]
            max_t == input.bounds[2]
        IN  IF IsSaturdayOrSunday(input.date)
            THEN (7 * min_t) \div 10 <= n /\ n <= (7 * max_t) \div 10
            ELSE min_t <= n /\ n <= max_t

(***************************************************************************)
(* Properties of the historical generation (SpecBatch)                     *)
(***************************************************************************)
Returned == pc \in {"export_stats", "export_raised", "export_write", "export_done"}

\* the day number of the date written as YYYY-MM-DD
IsoOrdinal(s) ==
    ToOrdinal([year |-> StrInt(SubSeq(s, 1, 4)), month |-> StrInt(SubSeq(s, 6, 7)),
               day |-> StrInt(SubSeq(s, 9, 10))])

\* C5: for days >= 1 the transaction_date values of the result of
\* generate_historical_data(days) are exactly the days consecutive calendar
\* dates today-(days-1) .. today: each is represented, none is outside.
C5_HistoricalDatesAreTheInterval ==
    (Returned /\ hist.days >= 1) =>
        LET dates == {output[i].transaction_date : i \in 1..Len(output)}
            today == ToOrdinal(hist.now)
        IN  /\ \A s \in dates : Len(s) = 10 /\ s[5] = "-" /\ s[8] = "-"
            /\ {IsoOrdinal(s) : s \in dates} = (today - (hist.days - 1))..today
            /\ Cardinality(dates) = hist.days

\* three days ending on 2024-03-01: the interval crosses the leap day
C5_Witness ==
    /\ pc = "export_done"
    /\ hist.days = 3
    /\ hist.now = DateTime(2024, 3, 1, 0, 0, 0, 1)
    /\ \E i \in 1..Len(output) :
           output[i].transaction_date = <<"2", "0", "2", "4", "-", "0", "2", "-", "2", "9">>
    /\ \E i \in 1..Len(output) :
           output[i].transaction_date = <<"2", "0", "2", "4", "-", "0", "2", "-", "2", "8">>

\* C8: the transaction_id values of one generate_historical_data run are
\* pairwise distinct, within a day and across days.
C8_BatchIdsPairwiseDistinct ==
    Returned =>
        \A i, j \in 1..Len(output) :
            output[i].transaction_id = output[j].transaction_id => i = j

\* three weekdays, each with the largest count the generator can draw
C8_Witness ==
    /\ pc = "export_done"
    /\ hist.days = 3
    /\ Len(output) = 3 * DefaultMaxTransactions
    /\ output[1].transaction_id # output[DefaultMaxTransactions + 1].transaction_id

(***************************************************************************)
(* Properties of the serialisers and sinks (SpecExport)                    *)
(***************************************************************************)
\* the JSON objects or table rows the finished call has persisted
Persisted ==
    CASE input.op = "transactions_to_json_lines" -> output
      [] input.op = "export_file"                -> output
      [] input.op = "_create_batch_file"         -> output.lines
      [] input.op = "_send_to_snowflake"         -> output.rows
      [] input.op = "_upload_and_ingest"         ->
             IF output.staged = <<>> THEN <<>> ELSE output.staged[1].lines

\* C6: no persisted or exported form of a record has an is_anomaly field:
\* not a line of transactions_to_json_lines, of the historical export file
\* or of a Snowpipe batch file, nor the columns of the direct INSERT.
C6_NoAnomalyFlagPersisted ==
    pc = "done" =>
        \A i \in 1..Len(Persisted) : "is_anomaly" \notin DOMAIN Persisted[i]

\* a batch file written from two records, the first flagged as an anomaly
C6_Witness ==
    /\ Called("_create_batch_file")
    /\ Len(input.transactions) = 2
    /\ input.transactions[1].is_anomaly
    /\ "is_anomaly" \in DOMAIN input.transactions[1]
    /\ Len(output.lines) = 2
    /\ DOMAIN output.lines[1] = {"transaction_id", "customer_id", "transaction_date",
                                 "transaction_amount", "transaction_type",
                                 "data_source", "batch_id", "streaming_timestamp"}

PersistedFields == {"transaction_id", "customer_id", "transaction_date",
                    "transaction_amount", "transaction_type"}

\* C7: parsing the lines of transactions_to_json_lines back gives as many
\* records as were serialised, in the same order, each equal to its
\* original in the five persisted fields and without is_anomaly.
C7_JsonLinesRoundTrip ==
    Called("transactions_to_json_lines") =>
        LET parsed == [i \in 1..Len(output) |-> json_loads(output[i])]
        IN  /\ Len(parsed) = Len(input.transactions)
            /\ \A i \in 1..Len(parsed) :
                   /\ DOMAIN parsed[i] = PersistedFields
                   /\ \A k \in PersistedFields : parsed[i][k] = input.transactions[i][k]

\* two records serialised, one with an amount of 504.83 and a timestamp id,
\* one anomalous with a date-and-sequence id
C7_Witness ==
    /\ Called("transactions_to_json_lines")
    /\ Len(output) = 2
    /\ input.transactions[1].transaction_amount = 50483
    /\ output[1].transaction_amount = <<"5", "0", "4", ".", "8", "3">>
    /\ input.transactions[2].is_anomaly
    /\ input.transactions[2].transaction_id \in ExplicitIds

\* C16: generate_amount never fails on an unrecognized category: without
\* the anomaly flag it uses the default range and returns an amount in
\* [50, 500]; with the flag it returns an amount in the anomaly range
\* whatever the category.
C16_UnknownCategoryUsesDefaultRange ==
    Called("generate_amount") =>
        /\ output \in Nat
        /\ (input.transaction_type \notin GlossaryCategories /\ ~input.is_anomaly)
               => (50 * CentsPerUnit <= output /\ output <= 500 * CentsPerUnit)
        /\ input.is_anomaly
               => (25000 * CentsPerUnit <= output /\ output <= 75000 * CentsPerUnit)

\* a normal draw far below the mean for a category the table does not
\* have, clamped to the default floor
C16_Witness ==
    /\ Called("generate_amount")
    /\ input.transaction_type = "wire_transfer"
    /\ ~input.is_anomaly
    /\ input.u = 0
    /\ output = 50 * CentsPerUnit

\* C17: the default configuration is well formed in every reachable state:
\* ten categories and ten weights, the weights (40,15,10,10,7,5,5,3,3,2)
\* summing to 100, every category with an amount range whose min is below
\* its max, and the category names exactly the ten of the glossary.
C17_DefaultConfigurationWellFormed ==
    LET types == generator.transaction_types
        weights == generator.transaction_weights
    IN  /\ Len(types) = 10
        /\ Len(weights) = 10
        /\ weights = <<40, 15, 10, 10, 7, 5, 5, 3, 3, 2>>
        /\ weights[1] + weights[2] + weights[3] + weights[4] + weights[5]
           + weights[6] + weights[7] + weights[8] + weights[9] + weights[10] = 100
        /\ \A i \in 1..Len(types) :
               /\ types[i] \in DOMAIN generator.amount_ranges
               /\ generator.amount_ranges[types[i]][1] < generator.amount_ranges[types[i]][2]
        /\ {types[i] : i \in 1..Len(types)} = GlossaryCategories
        /\ \A i, j \in 1..Len(types) : types[i] = types[j] => i = j

\* the configuration has served a call that drew the last, least likely
\* category
C17_Witness ==
    /\ Called("generate_transaction")
    /\ input.d.type = 999
    /\ output.transaction_type = "miscellaneous"
    /\ output.transaction_type = generator.transaction_types[10]

\* C18: generate_daily_transactions gives the i-th record of the day
\* (1-based, in output order) the id YYYYMMDD*10000 + i, the explicit id
\* and not one derived from a timestamp; so the ids increase strictly along
\* the output, and every record carries the given date.
C18_DailyIdsAreDateAndSequence ==
    (Called("generate_daily_transactions") /\ Len(output) <= 9999) =>
        /\ \A i \in 1..Len(output) :
               /\ output[i].transaction_id
                      = [hi |-> input.date.year,
                         lo |-> (input.date.month * 100 + input.date.day) * 10000 + i]
               /\ IsIsoDateOf(output[i].transaction_date, input.date)
        /\ \A i \in 1..(Len(output) - 1) :
               /\ output[i].transaction_id.hi = output[i + 1].transaction_id.hi
               /\ output[i].transaction_id.lo < output[i + 1].transaction_id.lo

\* a full weekday of 200 records: the last one has sequence number 0200
C18_Witness ==
    /\ Called("generate_daily_transactions")
    /\ input.date = DateTime(2024, 1, 15, 0, 0, 0, 0)
    /\ Len(output) = 200
    /\ output[1].transaction_id = [hi |-> 2024, lo |-> 1150001]
    /\ output[200].transaction_id = [hi |-> 2024, lo |-> 1150200]

(***************************************************************************)
(* Properties of the serialisers and sinks (SpecExport), continued         *)
(***************************************************************************)
\* the records the caller passed, as the caller sees them
CallerRecords ==
    CASE input.op = "_send_to_snowflake" -> <<input.transaction>>
      [] input.op = "_upload_and_ingest" -> <<>>
      [] OTHER                           -> input.transactions

RecordKeys == {"transaction_id", "customer_id", "transaction_date",
               "transaction_amount", "transaction_type", "is_anomaly"}

\* C21: export does not mutate records: once transactions_to_json_lines,
\* the file export, _create_batch_file or _send_to_snowflake has processed
\* a record, the caller's record is what it was, still has its is_anomaly
\* field and has no data_source, batch_id or streaming_timestamp key.
C21_ExportLeavesRecordsUnchanged ==
    /\ [](\A i \in 1..Len(CallerRecords) : DOMAIN CallerRecords[i] = RecordKeys)
    /\ [][input' = input]_vars

\* a batch file of two lines was written from two records, one of them
\* anomalous, which the caller still holds with the flag set
C21_Witness ==
    /\ Called("_create_batch_file")
    /\ Len(output.lines) = 2
    /\ "batch_id" \in DOMAIN output.lines[2]
    /\ "is_anomaly" \notin DOMAIN output.lines[2]
    /\ input.transactions[2].is_anomaly
    /\ "batch_id" \notin DOMAIN input.transactions[2]

StreamingFields == {"data_source", "batch_id", "streaming_timestamp"}

\* C22: every line of the batch export has exactly the keys transaction_id,
\* customer_id, transaction_date, transaction_amount, transaction_type;
\* every line of a Snowpipe batch file has exactly those five plus
\* data_source = 'STREAMING', batch_id and streaming_timestamp, and the
\* lines of one file agree on batch_id and on streaming_timestamp.
C22_ExportedKeySets ==
    /\ Called("export_file") =>
           /\ Len(output) = Len(input.transactions)
           /\ \A i \in 1..Len(output) : DOMAIN output[i] = PersistedFields
    /\ Called("_create_batch_file") =>
           /\ Len(output.lines) = Len(input.transactions)
           /\ \A i \in 1..Len(output.lines) :
                  /\ DOMAIN output.lines[i] = PersistedFields \cup StreamingFields
                  /\ output.lines[i].data_source = <<Quote, "STREAMING", Quote>>
           /\ \A i, j \in 1..Len(output.lines) :
                  /\ output.lines[i].batch_id = output.lines[j].batch_id
                  /\ output.lines[i].streaming_timestamp
                         = output.lines[j].streaming_timestamp

\* a file of two lines written one microsecond after midnight: both lines
\* carry the batch id of the file name and a timestamp with its fraction
C22_Witness ==
    /\ Called("_create_batch_file")
    /\ input.now = DateTime(2024, 3, 1, 0, 0, 0, 1)
    /\ Len(output.lines) = 2
    /\ output.lines[1].transaction_id # output.lines[2].transaction_id
    /\ Len(output.lines[2].streaming_timestamp) = 29
    /\ output.lines[2].streaming_timestamp[21] = "."
    /\ output.lines[2].batch_id[2] = "batch_"

(***************************************************************************)
(* Properties of all generator calls (SpecCalls)                           *)
(***************************************************************************)
\* the six configuration attributes of a generator
Configuration(g) ==
    <<g.customer_range, g.transaction_types, g.transaction_weights,
      g.amount_ranges, g.anomaly_probability, g.anomaly_amount_range>>

\* C20: generation is stateless: no step of generate_amount,
\* generate_transaction, generate_daily_transactions,
\* generate_historical_data or transactions_to_json_lines changes the
\* generator's configuration, so after any sequence of calls it is the
\* configuration the sequence started with.
C20_GenerationLeavesConfigurationUnchanged ==
    [][Configuration(generator') = Configuration(generator)]_vars

\* a three-day historical run, which calls every generation method several
\* hundred times, has returned on the configuration of a fresh generator
C20_Witness ==
    /\ input.op = "generate_historical_data"
    /\ pc = "export_done"
    /\ hist.daily_calls = 3
    /\ Len(output) >= 3 * 35
    /\ Configuration(generator) = Configuration(NewGenerator)

(***************************************************************************)
(* Properties of the streaming run (SpecStream)                            *)
(***************************************************************************)
History == stream.history

\* milliseconds from the epoch to midnight of StreamDay, 1705276800000
StreamDayEpochMillis == [hi |-> 17052, lo |-> 76800000]

\* the transaction_id of every record of the run is the millisecond of its
\* call plus a suffix in 1..999
IdIsMillisPlusSuffix ==
    \A i \in 1..Len(History) :
        LET id == History[i].transaction.transaction_id
            r  == (id.hi - StreamDayEpochMillis.hi) * BigBase
                  + (id.lo - StreamDayEpochMillis.lo) - History[i].clock
        IN  r \in 1..999

\* C9 as stated: the id is floor(timestamp in ms) + r with r in [1, 999],
\* and two records of one streaming run have equal ids only if their calls
\* fell within the same millisecond.
C9_EqualIdsOnlyInSameMillisecond ==
    /\ IdIsMillisPlusSuffix
    /\ \A i, j \in 1..Len(History) :
           History[i].transaction.transaction_id = History[j].transaction.transaction_id
               => History[i].clock = History[j].clock

\* C9 amended: the id is floor(timestamp in ms) + r with r in [1, 999], and
\* two records of one streaming run have equal ids only if their calls were
\* less than 999 milliseconds apart.
C9_EqualIdsOnlyWithin998Millis ==
    /\ IdIsMillisPlusSuffix
    /\ \A i, j \in 1..Len(History) :
           History[i].transaction.transaction_id = History[j].transaction.transaction_id
               => /\ History[i].clock - History[j].clock <= 998
                  /\ History[j].clock - History[i].clock <= 998

\* at 2 transactions per second: suffix 501 then, half a second later,
\* suffix 1 give the same id
C9_Witness ==
    /\ Len(History) = 2
    /\ History[2].clock = History[1].clock + 500
    /\ History[1].transaction.transaction_id = History[2].transaction.transaction_id

\* C11: in every reachable state of a generator, also one owned by a
\* streamer built with any --anomaly-rate the command line accepts,
\* anomaly_probability lies in [0, 1].
C11_AnomalyProbabilityInUnitInterval ==
    /\ generator.anomaly_probability >= 0
    /\ generator.anomaly_probability <= RandScale

Signalled == stream.signal_at # Nothing

StreamReturned == pc = "stream_returned"

\* after a signal at most one further transaction is generated, and none
\* unless the signal found the iteration between the loop test and the body
AtMostOneAfterSignal ==
    Signalled =>
        LET at == stream.signal_at[1]
        IN  /\ stream.stats.total_transactions <= at.ticks + 1
            /\ at.pc # "stream_body" => stream.stats.total_transactions = at.ticks

\* the iteration the signal interrupted still made its sink call and slept
\* its whole interval
IterationInProgressFinishes ==
    (Signalled /\ StreamReturned /\ Len(History) > 0) =>
        LET at == stream.signal_at[1]
            last == History[Len(History)]
        IN  /\ Len(stream.sends) = Len(History)
            /\ stream.sends[Len(History)].tick = Len(History)
            /\ at.pc = "stream_body" => Len(History) = at.ticks + 1
            /\ clock >= last.clock + stream.interval

\* with the flag down, the top of the loop lets no iteration start
NoIterationStartsAfterSignal ==
    (Signalled /\ pc = "stream_loop") => ~StreamLoopTest

\* how many steps of the main thread separate a position from the return
StepsToReturn(p) ==
    CASE p = "stream_body"     -> 3
      [] p = "stream_sleep"    -> 2
      [] p = "stream_loop"     -> 1
      [] p = "stream_returned" -> 0

\* once signalled, each step brings the main thread one position closer to
\* the return, and at the top of the loop its next step is the exit
ExitsAfterSignal ==
    /\ [](Signalled /\ pc = "stream_loop" => ENABLED StreamExit)
    /\ [][Signalled => StepsToReturn(pc') = StepsToReturn(pc) - 1]_vars

\* C13: cancellation is cooperative: the stop flag is read only at the top
\* of the loop, so after a signal the iteration in progress finishes its
\* sink call and its sleep, at most one further transaction is generated,
\* and the loop then exits.
C13_CooperativeCancellation ==
    /\ [](AtMostOneAfterSignal /\ IterationInProgressFinishes
          /\ NoIterationStartsAfterSignal)
    /\ ExitsAfterSignal

\* a signal between the loop test and the body: one more transaction was
\* generated and sent, the half-second sleep was slept, the loop has exited
C13_Witness ==
    /\ StreamReturned
    /\ Signalled
    /\ stream.signal_at[1].pc = "stream_body"
    /\ stream.signal_at[1].ticks = 1
    /\ stream.stats.total_transactions = 2
    /\ Len(stream.sends) = 2
    /\ stream.interval = 500
    /\ clock >= History[2].clock + 500

\* the wall clock, in milliseconds from midnight of StreamDay, of a datetime
ClockOf(dt) ==
    (ToOrdinal(dt) - ToOrdinal(StreamDay)) * 86400000
    + dt.hour * 3600000 + dt.minute * 60000 + dt.second * 1000
    + dt.microsecond \div 1000

StreamStarted == pc \in {"stream_loop", "stream_body", "stream_sleep"}

\* C15: when a duration of d seconds is given, 0 included, no iteration
\* starts once d seconds have elapsed since the start, and the loop runs
\* without a time limit only when no duration is given.
C15_DurationLimitsTheLoop ==
    /\ (input.duration_seconds # Nothing /\ Len(History) > 0) =>
           \A i \in 1..Len(History) :
               History[i].clock
                   < ClockOf(stream.stats.start_time) + 1000 * input.duration_seconds[1]
    /\ (StreamStarted /\ stream.end_time = Nothing) => input.duration_seconds = Nothing

\* the step just taken was the body of one iteration
TickStep == pc = "stream_body" /\ pc' # "stream_body"

\* C28: in SimpleRealtimeStreamer, at the top of every loop iteration and
\* at return, total_transactions = successful_sends + failed_sends and
\* anomalies <= total_transactions; no counter ever decreases; every
\* iteration adds one to total_transactions and one to exactly one of
\* successful_sends and failed_sends, and no other step counts.
C28_CountersAddUp ==
    /\ []((stream.kind = "insert" /\ pc \in {"stream_loop", "stream_returned"}) =>
             LET st == stream.stats
             IN  /\ st.total_transactions = st.successful_sends + st.failed_sends
                 /\ st.anomalies <= st.total_transactions
                 /\ st.total_transactions = Len(History))
    /\ [][stream.kind = "insert" =>
             LET st == stream.stats
                 new == stream'.stats
             IN  /\ new.total_transactions >= st.total_transactions
                 /\ new.successful_sends >= st.successful_sends
                 /\ new.failed_sends >= st.failed_sends
                 /\ new.anomalies >= st.anomalies
                 /\ new.anomalies <= st.anomalies + 1
                 /\ IF TickStep
                    THEN /\ new.total_transactions = st.total_transactions + 1
                         /\ \/ /\ new.successful_sends = st.successful_sends + 1
                               /\ new.failed_sends = st.failed_sends
                            \/ /\ new.successful_sends = st.successful_sends
                               /\ new.failed_sends = st.failed_sends + 1
                    ELSE /\ new.total_transactions = st.total_transactions
                         /\ new.successful_sends = st.successful_sends
                         /\ new.failed_sends = st.failed_sends
                         /\ new.anomalies = st.anomalies]_vars

\* returned after one send that arrived and one that failed, the second
\* transaction an anomaly
C28_Witness ==
    /\ stream.kind = "insert"
    /\ pc = "stream_returned"
    /\ stream.stats.total_transactions = 2
    /\ stream.stats.successful_sends = 1
    /\ stream.stats.failed_sends = 1
    /\ stream.stats.anomalies = 1
    /\ stream.sends[1].ok /\ ~stream.sends[2].ok
    /\ History[2].transaction.is_anomaly

\* a stop signal has been handled since the streamer was constructed
SignalDelivered == stream.early_signal \/ Signalled

\* C29: no stop signal is lost: once a SIGINT or SIGTERM has been handled
\* at any moment after the construction of the streamer, also before
\* stream_transactions has set running to True, the stop flag is down at
\* the top of the loop, so that the loop exits there whether or not a
\* duration limit was given, and no further iteration starts.
C29_NoStopSignalLost ==
    /\ []((stream.kind = "insert" /\ SignalDelivered /\ pc = "stream_loop")
              => ~stream.running)
    /\ [][(stream.kind = "insert" /\ SignalDelivered)
              => ~(pc = "stream_loop" /\ pc' = "stream_body")]_vars

\* a signal handled during the loop is not lost
C29_SignalInLoopStops ==
    (stream.kind = "insert" /\ Signalled /\ pc = "stream_loop") => ~stream.running

\* a signal came before stream_transactions was called; the loop runs
\* without a time limit and has generated two transactions all the same
C29_EarlySignalForgotten ==
    /\ stream.kind = "insert"
    /\ stream.early_signal
    /\ ~Signalled
    /\ stream.running
    /\ stream.end_time = Nothing
    /\ stream.stats.total_transactions = 2

(***************************************************************************)
(* Properties of both streamers (SpecStreams)                              *)
(***************************************************************************)
\* how often the transaction of iteration k was handed to the INSERT sink
SendCount(k) == Cardinality({i \in 1..Len(stream.sends) : stream.sends[i].tick = k})

\* how many uploaded files hold the transaction of iteration k
UploadCount(k) ==
    Cardinality({i \in 1..Len(stream.uploads) :
                    \E j \in 1..Len(stream.uploads[i].ticks) :
                        stream.uploads[i].ticks[j] = k})

InBatch(k) == \E j \in 1..Len(stream.batch) : stream.batch[j].tick = k

RECURSIVE LinesWritten(_)
LinesWritten(n) == IF n = 0 THEN 0 ELSE LinesWritten(n - 1) + stream.uploads[n].lines

\* C27: Snowpipe batching with batch_size >= 1: at the top of every loop
\* iteration the buffer holds fewer than batch_size transactions, and
\* total_transactions is the number of transactions written to batch files
\* plus the buffer length; when stream_transactions has returned, the
\* partial batch has been written too: every generated transaction is in
\* exactly one batch file and no file holds more than batch_size.
C27_BatchingLosesNothing ==
    (stream.kind = "snowpipe" /\ stream.batch_size >= 1) =>
        LET written == LinesWritten(Len(stream.uploads))
            total == stream.stats.total_transactions
        IN  /\ pc = "pipe_loop" =>
                  /\ Len(stream.batch) < stream.batch_size
                  /\ total = written + Len(stream.batch)
            /\ pc = "pipe_returned" =>
                  /\ total = written
                  /\ \A k \in 1..total : UploadCount(k) = 1
            /\ \A i \in 1..Len(stream.uploads) :
                  /\ stream.uploads[i].lines = Len(stream.uploads[i].ticks)
                  /\ stream.uploads[i].lines >= 1
                  /\ stream.uploads[i].lines <= stream.batch_size
            /\ total = Len(History)

\* batches of up to 100: the stop signal came after two transactions and the
\* partial batch of two was written on the way out
C27_Witness ==
    /\ stream.kind = "snowpipe"
    /\ pc = "pipe_returned"
    /\ stream.batch_size = 100
    /\ stream.signal_at # Nothing
    /\ stream.stats.total_transactions = 2
    /\ Len(stream.uploads) = 1
    /\ stream.uploads[1].ticks = <<1, 2>>
    /\ stream.uploads[1].lines = 2

\* stream_transactions is entered on a streamer that has no connection
CalledWithoutConnection ==
    /\ pc \in {"constructed", "pipe_constructed"}
    /\ ~stream.sf_connection
    /\ pc' # pc

\* the streamer is as its constructor left it, and nothing was generated,
\* sent or written
Untouched ==
    /\ ~stream.running
    /\ stream.stats = (IF stream.kind = "insert" THEN NewStats ELSE NewPipeStats)
    /\ stream.history = <<>>
    /\ stream.kind = "insert" => stream.sends = <<>>
    /\ stream.kind = "snowpipe" => (stream.uploads = <<>> /\ stream.batch = <<>>)
    /\ output = None

\* C30: without a warehouse connection stream_transactions of either
\* streamer returns at once: its only step leads to the return, generates
\* no transaction, calls no sink, writes no batch file, leaves running False
\* and leaves every counter and start_time as the constructor set them.
C30_NoConnectionReturnsAtOnce ==
    /\ [][CalledWithoutConnection =>
             /\ pc' \in {"stream_returned", "pipe_returned"}
             /\ stream' = stream
             /\ UNCHANGED <<generator, output, rng, clock>>]_vars
    /\ []((pc \in {"constructed", "pipe_constructed"}) => Untouched)
    /\ []((pc \in {"stream_returned", "pipe_returned"} /\ stream.stats.start_time = None)
             => (Untouched /\ ~stream.sf_connection))

\* the INSERT streamer has returned without a connection, a stop signal
\* having been handled before the call
C30_Witness ==
    /\ pc = "stream_returned"
    /\ stream.kind = "insert"
    /\ ~stream.sf_connection
    /\ stream.early_signal
    /\ stream.stats.start_time = None
    /\ stream.stats.total_transactions = 0
    /\ ~stream.running
    /\ stream.sends = <<>>

(***************************************************************************)
(* Properties of the sinks, called directly and from the loops (SpecSinks) *)
(***************************************************************************)
\* the call met a warehouse that raises, or no connection at all
SinkFails == input.raises \/ ~input.sf_connection

\* the step just taken was an INSERT that failed
FailedSendStep ==
    /\ pc = "stream_body"
    /\ Len(stream'.sends) = Len(stream.sends) + 1
    /\ ~stream'.sends[Len(stream'.sends)].ok

\* the step just taken was an iteration whose batch upload failed
FailedUploadStep ==
    /\ pc = "pipe_body"
    /\ Len(stream'.uploads) = Len(stream.uploads) + 1
    /\ ~stream'.uploads[Len(stream'.uploads)].ok

\* C23: a sink failure is a value, not an exception: when the warehouse
\* call raises or there is no connection, _send_to_snowflake and
\* _upload_and_ingest return False, and the streaming loop goes on to its
\* next tick instead of terminating.
C23_SinkFailureIsAValue ==
    /\ []((Called("_send_to_snowflake") /\ SinkFails)
              => (output.ok = FALSE /\ output.rows = <<>>))
    /\ []((Called("_upload_and_ingest") /\ SinkFails)
              => (output.ok = FALSE /\ output.staged = <<>>))
    /\ [][FailedSendStep =>
              (pc' = "stream_sleep" /\ stream'.running = stream.running
               /\ stream'.stats.failed_sends = stream.stats.failed_sends + 1)]_vars
    /\ [][FailedUploadStep =>
              (pc' = "pipe_sleep" /\ stream'.running = stream.running
               /\ stream'.stats.failed_batches = stream.stats.failed_batches + 1)]_vars

\* the first INSERT failed and the loop went on: the second tick sent its
\* transaction successfully
C23_Witness ==
    /\ stream.kind = "insert"
    /\ Len(stream.sends) = 2
    /\ ~stream.sends[1].ok
    /\ stream.sends[2].ok
    /\ stream.stats.failed_sends = 1
    /\ stream.stats.successful_sends = 1

(***************************************************************************)
(* Properties of the historical export (SpecBatch), continued              *)
(***************************************************************************)
\* C19: the sequence returned by generate_historical_data is ordered by
\* date: transaction_date never decreases along it, and the records of one
\* date form one contiguous block.
C19_HistoricalOutputOrderedByDate ==
    Returned =>
        LET n == Len(output)
            dates == {output[i].transaction_date : i \in 1..n}
            changes == {i \in 1..(n - 1) :
                           output[i].transaction_date # output[i + 1].transaction_date}
        IN  /\ \A i \in 1..(n - 1) :
                   IsoOrdinal(output[i].transaction_date)
                       <= IsoOrdinal(output[i + 1].transaction_date)
            /\ n > 0 => Cardinality(changes) = Cardinality(dates) - 1

\* three days across the turn of the year: the list starts on 30 December
\* 2023 and ends on 1 January 2024
C19_Witness ==
    /\ pc = "export_done"
    /\ hist.days = 3
    /\ hist.now = DateTime(2024, 1, 1, 12, 30, 0, 0)
    /\ output[1].transaction_date = <<"2", "0", "2", "3", "-", "1", "2", "-", "3", "0">>
    /\ output[Len(output)].transaction_date
           = <<"2", "0", "2", "4", "-", "0", "1", "-", "0", "1">>

\* the records of n consecutive days from date on, drawn from position pos
\* of the random stream seed
RECURSIVE RecordsOfDays(_, _, _, _)
RecordsOfDays(date, n, seed, pos) ==
    IF n <= 0 THEN <<>>
    ELSE LET r == generate_daily_transactions(NewGenerator, date, DefaultMinTransactions,
                                              DefaultMaxTransactions, seed, pos)
         IN  r.transactions \o RecordsOfDays(NextDay(date), n - 1, seed, r.pos)

\* what a run must return if it depends on days, on the calendar date of
\* today and on the random draws alone
RecordsOf(days, year, month, day, seed) ==
    RecordsOfDays(AddDays(DateTime(year, month, day, 0, 0, 0, 0), -(days - 1)),
                  days, seed, 0)

\* C24: the result of generate_historical_data is a function of days, of
\* the current date and of the sequence of random draws: two invocations
\* that agree on these return identical record sequences, whatever the
\* time of day and whatever else differs.
C24_HistoricalOutputDeterminedByDateAndDraws ==
    Returned =>
        output = RecordsOf(hist.days, hist.now.year, hist.now.month, hist.now.day,
                           rng.seed)

\* two runs are possible on 15 January 2024 with the same draws, one at
\* 10:00 and one at 23:59:59; this is the later one, three days long
C24_Witness ==
    /\ pc = "export_done"
    /\ hist.now = DateTime(2024, 1, 15, 23, 59, 59, 0)
    /\ DateTime(2024, 1, 15, 10, 0, 0, 0) \in Nows
    /\ hist.days = 3
    /\ rng.seed = <<7, 389>>
    /\ Len(output) > 0
    /\ output = RecordsOf(3, 2024, 1, 15, <<7, 389>>)

\* an iteration of the while loop of generate_historical_data
HistIteration == pc = "hist_loop" /\ pc' = "hist_loop" /\ hist' # hist

\* the number of days from the cursor to today, both included
DaysLeft == ToOrdinal(hist.end_date) - ToOrdinal(hist.current_date) + 1

\* C25: generate_historical_data(days) terminates: the days left from the
\* cursor to today are a bound on the iterations still to come; every
\* iteration moves the cursor forward by exactly one day and calls
\* generate_daily_transactions once, the loop goes on exactly while days
\* are left and returns when none is, after the iteration for today, with
\* exactly max(days, 0) calls made.
C25_HistoricalLoopTerminates ==
    /\ [][HistIteration =>
             /\ ToOrdinal(hist'.current_date) = ToOrdinal(hist.current_date) + 1
             /\ Midnight(hist'.current_date) = hist'.current_date
             /\ hist'.daily_calls = hist.daily_calls + 1
             /\ hist'.end_date = hist.end_date
             /\ DaysLeft >= 1]_vars
    /\ [](pc = "hist_loop" =>
             /\ hist.daily_calls + Max(DaysLeft, 0) = Max(hist.days, 0)
             /\ LoopContinues(hist.current_date, hist.end_date) <=> DaysLeft >= 1
             /\ DaysLeft <= 0 => ENABLED HistReturn)
    /\ [](Returned =>
             /\ hist.daily_calls = Max(hist.days, 0)
             /\ hist.end_date = Midnight(hist.now)
             /\ hist.days >= 1 => ToOrdinal(hist.current_date) = ToOrdinal(hist.now) + 1)

\* returned after three iterations that crossed 29 February
C25_Witness ==
    /\ Returned
    /\ hist.now = DateTime(2024, 3, 1, 0, 0, 0, 1)
    /\ hist.days = 3
    /\ hist.daily_calls = 3
    /\ hist.start_date = DateTime(2024, 2, 28, 0, 0, 0, 0)
    /\ hist.current_date = DateTime(2024, 3, 2, 0, 0, 0, 0)

(***************************************************************************)
(* Properties of the customer generator (SpecCustomers).                   *)
(***************************************************************************)
\* the customer records once generate_customers has returned
Customers == IF pc = "cust_call" THEN <<>> ELSE output.customer_data

\* the texts a JSON line or a VALUES list uses for a missing value
NullTexts == {<<"null">>, <<"None">>, <<"NULL">>}

\* C26: a customer record carries loan_record_id exactly when its
\* customer_id is at most 5800, and then it is customer_id - 1000; a customer
\* without a mortgage has no such field, and no null in its place, in the
\* record, in its NDJSON line and in its INSERT statement; the customer ids
\* are 1001..1000+num_customers in order, each once.
C26_LoanRecordIdIffMortgage ==
    LET customers == Customers
        n == Len(customers)
    IN  /\ pc # "cust_call" =>
              /\ n = Max(input.customers, 0)
              /\ \A i \in 1..n : customers[i].customer_id = 1000 + i
              /\ \A i \in 1..n :
                    LET c == customers[i]
                    IN  /\ ("loan_record_id" \in DOMAIN c) <=> (c.customer_id <= 5800)
                        /\ "loan_record_id" \in DOMAIN c
                              => c.loan_record_id = c.customer_id - 1000
                        /\ DOMAIN c \ {"loan_record_id"}
                              = {"customer_id", "first_name", "last_name", "phone_number"}
        /\ pc \in {"cust_saved", "cust_done"} =>
              /\ Len(output.json_file) = n
              /\ \A i \in 1..n :
                    LET line == output.json_file[i]
                    IN  /\ DOMAIN line = DOMAIN customers[i]
                        /\ \A k \in DOMAIN line : line[k] \notin NullTexts
                        /\ line.customer_id = IntStr(1000 + i)
                        /\ "loan_record_id" \in DOMAIN line
                              => line.loan_record_id = IntStr(i)
        /\ pc = "cust_done" =>
              /\ Len(output.sql_statements.statements) = n
              /\ \A i \in 1..n :
                    LET sql == output.sql_statements.statements[i]
                        cols == {sql.columns[j] : j \in 1..Len(sql.columns)}
                    IN  /\ Len(sql.columns) = Len(sql.values)
                        /\ Cardinality(cols) = Len(sql.columns)
                        /\ cols = DOMAIN customers[i]
                        /\ \A j \in 1..Len(sql.values) : sql.values[j] \notin NullTexts
                        /\ sql.values[1] = IntStr(1000 + i)
                        /\ "loan_record_id" \in cols
                              => sql.values[Len(sql.values)] = IntStr(i)

\* the default run: customer 5800 is the last with a mortgage, 5801 the
\* first without, in all three outputs
C26_Witness ==
    /\ pc = "cust_done"
    /\ input.customers = DefaultNumCustomers
    /\ output.customer_data[4800].customer_id = 5800
    /\ output.customer_data[4800].loan_record_id = 4800
    /\ "loan_record_id" \notin DOMAIN output.customer_data[4801]
    /\ "loan_record_id" \notin DOMAIN output.json_file[4801]
    /\ Len(output.sql_statements.statements[4800].columns) = 5
    /\ Len(output.sql_statements.statements[4801].columns) = 4
    /\ output.customer_data[5000].customer_id = 6000

\* C12: historical generation has no failure modes: for every integer days,
\* zero and negative ones included, the generator's method and the exporter
\* that wraps it complete without raising.
C12_HistoricalGenerationNeverRaises == pc # "export_raised"

====
